---- MODULE Spec2Model ----
(***************************************************************************)
(* Model of the staged parsing runtime (parser.Parse), of the static       *)
(* assignments and the whitelist checks of a parser node (parser.Node) and *)
(* of the polling API client (apiserver.Papi) of crowdsec.                 *)
(*                                                                         *)
(* The specifications of the module share its variables:                   *)
(*   SpecParse    one call of Parse on one event                           *)
(*   SpecParseDump two calls of Parse at once, the trace of the parsers on *)
(*   SpecPullOnce one call of Papi.PullOnce                                *)
(*   SpecPull     the real-time loop Papi.Pull, with crash and restart     *)
(*   SpecSend     one call of Papi.SendDeletedDecisions                    *)
(*   SpecSync     the loop Papi.SyncDecisions and the transmissions it     *)
(*                starts; SpecSyncLive adds the fairness of its select,    *)
(*                SpecSyncFair that of its ticker as well                  *)
(*   SpecPullLive SpecPull with the fairness of the steps of the loop      *)
(*   SpecStatics  one call of Node.ProcessStatics                          *)
(*   SpecIPsWL    one call of Node.CheckIPsWL                              *)
(*   SpecExprWL   one call of Node.CheckExprWL                             *)
(***************************************************************************)
EXTENDS Integers, Sequences, FiniteSets, TLC

(***************************************************************************)
(* Bounds of the model.                                                    *)
(***************************************************************************)
MaxStages == 2
MaxNodes == 2
MaxBatch == 3
MaxClock == 3
MaxEvents == 2
MaxSend == 125
MaxDeleted == 3
MaxStatics == 2
MaxIps == 1
MaxExprs == 3

VARIABLES
    \* ---- parser.Parse -------------------------------------------------
    Stages,        \* ctx.Stages: the configured stage list
    nodes,         \* the node list handed to Parse
    xp,            \* the event as handed to Parse
    event,         \* Parse's working copy of the event
    ppc,           \* position inside Parse
    sidx,          \* index of the stage loop (1-based position in Stages)
    nidx,          \* index of the node loop (1-based position in nodes)
    isStageOK,     \* Parse's local of the same name
    perr,          \* the error Parse returned
    exit,          \* which return statement of Parse was taken
    calls,         \* history: the node invocations of this call, in order
    skipped,       \* history: stage positions skipped by the seek
    \* ---- parser: the trace of the parsers (ParseDump) -------------------
    ParseDump,     \* the flag of the same name
    StageParseCache, \* the trace: whether it is nil, and its maps
    StageParseMutex, \* the call that holds the mutex ("" when unlocked)
    dpc,           \* position of the call in the code of the trace
    parserIdxInStage, \* Parse's local of the same name
    opc,           \* position of a second, concurrent call of Parse
    ostage,        \* the second call: index of its stage loop
    onode,         \* the second call: the node it has invoked
    oidx,          \* the second call: its local parserIdxInStage
    oinvoked,      \* history: the node invocations of the second call
    appended,      \* history: the records appended to the trace so far
    \* ---- apiserver.Papi -----------------------------------------------
    db,            \* the stored config item PapiPullKey ("" when absent)
    now,           \* the wall clock
    qpc,           \* position inside PullOnce / Pull
    handled,       \* history: PullOnce's calls of handleEvent, in order
    oerr,          \* the error PullOnce / Pull returned
    \* PullOnce
    sync,          \* the parameter of the same name
    delivered,     \* the batch as the transport returned it
    reversedEvents,\* local of the same name
    ridx,          \* loop index over reversedEvents (1-based)
    dbAtEntry,     \* history: db when PullOnce was entered
    \* Pull
    lastTimestamp, \* local of the same name
    lastTimestampStr, \* local of the same name: what GetConfigItem returned
    papiChan,      \* local of the same name: "nil", or "open" once obtained from Start
    currentSubscriptionType, \* local of the same name
    ctxCancelled,  \* whether cancel() was called on the current papiCtx
    curEvent,      \* the event taken from papiChan
    binTime,       \* local of the same name
    subscription,  \* what apiClient.GetSubscriptionType() returns
    refreshPending,\* a notification waits on tokenRefreshChan
    clientRunning, \* Client.Start was called and Client.Stop was not since
    stopSignal,    \* Shutdown's send on stopChan met the loop's receive
    shutdownCalled,\* Shutdown was called
    shutdownAt,    \* history: the position of Pull when Shutdown was called ("" before)
    nextId,        \* number of events the transport delivered so far
    dbAtRecv,      \* history: db when the current event was received
    handleOK,      \* history: handleEvent returned nil for curEvent
    interrupted,   \* history: receive time of the event whose dispatch a crash cut
    startedSince,  \* history: the time given to the last Client.Start
    startWhileRunning, \* history: Client.Start was called on a running client
    \* ---- apiserver.Papi: SyncDecisions and SendDeletedDecisions --------
    ShareManualDecisions, \* consoleConfig.ShareManualDecisions: "nil", "false", "true"
    ConsoleManagement,    \* consoleConfig.ConsoleManagement: "nil", "false", "true"
    spc,           \* position of SyncDecisions: "idle", "loop", "returned"
    cache,         \* SyncDecisions' local of the same name
    dying,         \* syncTomb.Dying() is closed
    nextDecision,  \* number of deleted decisions put on DeleteDecisionChannel so far
    flights,       \* the calls of SendDeletedDecisions, in the order they were started
    outbound,      \* history: the calls of sendDeletedDecisionsBatch, in order
    \* ---- parser.Node.ProcessStatics ------------------------------------
    nStatics,      \* len(statics): the number of directives of the list
    evt,           \* the event ProcessStatics works on
    static,        \* the loop variable of the same name: the directive at hand
    value,         \* local of the same name, as resolved for the directive at hand
    outcome,       \* history: how the iteration on the directive at hand ended
    prevOutcome,   \* history: how the iteration before it ended
    called,        \* history: the iteration at hand ran an enrichment function
    stidx,         \* number of directives the loop has taken from the list
    stpc,          \* position of ProcessStatics: "idle", "loop", "returned", "fatal"
    sterr,         \* the error ProcessStatics returned
    \* ---- parser.Node.CheckIPsWL and parser.Node.CheckExprWL -------------
    Whitelist,     \* n.Whitelist: B_Ips, B_Cidrs and B_Exprs
    wlEvent,       \* the event handed to the two checks
    ippc,          \* position of CheckIPsWL: "idle", "called", "returned"
    ipResult,      \* what CheckIPsWL returned
    epc,           \* position of CheckExprWL: "idle", "loop", "returned"
    eidx,          \* number of expressions the loop of CheckExprWL has taken
    isWhitelisted, \* CheckExprWL's local of the same name
    exprResult,    \* what CheckExprWL returned: the boolean and the error
    evaluated      \* history: the positions of the expressions that were run

parseVars == <<Stages, nodes, xp, event, ppc, sidx, nidx, isStageOK, perr, exit,
               calls, skipped>>
dumpVars == <<ParseDump, StageParseCache, StageParseMutex, dpc, parserIdxInStage,
              opc, ostage, onode, oidx, oinvoked, appended>>
storeVars == <<db, now>>
onceVars == <<sync, delivered, reversedEvents, ridx, dbAtEntry>>
loopVars == <<lastTimestamp, lastTimestampStr, papiChan, currentSubscriptionType,
              ctxCancelled, curEvent, binTime>>
envVars == <<subscription, refreshPending, clientRunning, stopSignal,
             shutdownCalled, shutdownAt, nextId>>
histVars == <<dbAtRecv, handleOK, interrupted, startedSince, startWhileRunning>>
pullVars == <<loopVars, envVars, histVars>>
papiVars == <<storeVars, qpc, handled, oerr, onceVars, pullVars>>
syncVars == <<ShareManualDecisions, ConsoleManagement, spc, cache, dying,
              nextDecision, flights, outbound>>
staticsVars == <<nStatics, evt, static, value, outcome, prevOutcome, called, stidx,
                 stpc, sterr>>
wlVars == <<Whitelist, wlEvent, ippc, ipResult, epc, eidx, isWhitelisted, exprResult,
            evaluated>>
nodeVars == <<staticsVars, wlVars>>
vars == <<parseVars, dumpVars, papiVars, syncVars, nodeVars>>

Nil == "nil"

(***************************************************************************)
(* parser.Parse                                                            *)
(***************************************************************************)

\* The stage names of the model: the configured list is a prefix of these.
AllStageNames == <<"s00", "s01", "s02", "s03">>

StageUniverse == {AllStageNames[i] : i \in 1..MaxStages}

\* The configured lists: the stages in order, none repeated.
StageLists == {SubSeq(AllStageNames, 1, n) : n \in 0..MaxStages}

OnSuccessValues == {"next_stage", ""}

NodeSet == [Stage : StageUniverse, OnSuccess : OnSuccessValues]

SeqsUpTo(S, n) == UNION {[1..k -> S] : k \in 0..n}

Errors == {"errA", "errB"}

\* A node's processing may move the event to any stage, or leave it.
NoJump == "-"

\* stageidx: the 0-based position of stage in stages, -1 when absent.
stageidx(stage, stages) ==
    IF \E i \in 1..Len(stages) : stages[i] = stage
    THEN (CHOOSE i \in 1..Len(stages) :
              /\ stages[i] = stage
              /\ \A j \in 1..(i - 1) : stages[j] # stage) - 1
    ELSE -1

\* Node.process, seen from Parse: the stage the event is left in by a node n
\* invoked on an event in stage st, whose statics moved the event to `jump`
\* (NoJump: no move) and whose match result was ret.  A matching node with
\* OnSuccess "next_stage" moves the event to the stage after its current one,
\* unless that is the last one.
NodeStageAfter(n, st, ret, jump, stages) ==
    LET s1 == IF jump = NoJump THEN st ELSE jump
        idx == stageidx(s1, stages)
    IN  IF ret /\ n.OnSuccess = "next_stage" /\ idx + 1 < Len(stages)
        THEN stages[idx + 2]
        ELSE s1

\* Mutant of EntryStage: an event without stage is left without stage.
EntryStageKeepsEmpty(e, stages) == e.Stage

\* Lines 647-651: a freshly acquired line starts in the first stage.
EntryStage(e, stages) ==
    IF e.Stage = "" /\ Len(stages) > 0 THEN stages[1] ELSE e.Stage

\* Mutant of EntryProcess: the Process flag of the caller's event is kept.
EntryProcessKept(e) == e.Process

\* Line 652.
EntryProcess(e) == FALSE

\* Mutant of SeekSkipsStage: the seek also skips the event's own stage.
SeekSkipsOwnStage(evStage, stage, stages) ==
    stageidx(evStage, stages) >= stageidx(stage, stages)

\* Line 693: the event is already further than this stage.
SeekSkipsStage(evStage, stage, stages) ==
    stageidx(evStage, stages) > stageidx(stage, stages)

\* Mutant of NodeIsSkipped: every node of the list is processed.
NodeIsNeverSkipped(evStage, n) == FALSE

\* Line 709: only the current stage's nodes are processed.
NodeIsSkipped(evStage, n) == evStage # n.Stage

\* Mutant of StageOKAfter: a stage counts as passed once a node of it ran.
StageOKAfterAnyNode(ok, ret) == TRUE

\* Lines 743-745.
StageOKAfter(ok, ret) == ok \/ ret

\* Mutant of NodeLoopBreaks: only a match with OnSuccess "next_stage" ends
\* the node loop.
NodeLoopBreaksOnNextStageOnly(ret, n, evStage, stage) ==
    ret /\ n.OnSuccess = "next_stage"

\* Lines 746-754: leave the node loop.
NodeLoopBreaks(ret, n, evStage, stage) ==
    \/ ret /\ n.OnSuccess = "next_stage"
    \/ evStage # stage

\* The names of the nodes, by their position in the list.
NodeNames == <<"n1", "n2", "n3", "n4", "n5", "n6">>

\* The keys of StageParseCache[stage]: the names of the nodes.
TraceNames == {NodeNames[i] : i \in DOMAIN NodeNames}

\* StageParseCache (lines 639-642), a map from stages to maps from node
\* names to slices of dumps.ParserResult: nil tells whether the outer map is
\* nil, stages holds the keys of the outer map, names the keys of the inner
\* maps, each with its stage, and recs the slices ("success" and its key ""
\* of lines 677-678 hold no record).
NoCache ==
    [nil |-> TRUE, stages |-> {}, names |-> {},
     recs |-> [k \in StageUniverse \X TraceNames |-> <<>>]]

\* The trace is off, and no second call is looked at.
DumpIdle ==
    /\ ParseDump = FALSE
    /\ StageParseCache = NoCache
    /\ StageParseMutex = ""
    /\ dpc = "none"
    /\ parserIdxInStage = 0
    /\ opc = "idle"
    /\ ostage = 0
    /\ onode = 0
    /\ oidx = 0
    /\ oinvoked = 0
    /\ appended = 0

InitParse ==
    /\ Stages \in StageLists
    /\ nodes \in SeqsUpTo(NodeSet, MaxNodes)
    /\ xp \in [Stage : {""} \cup StageUniverse, Process : BOOLEAN]
    /\ event = xp
    /\ ppc = "entry"
    /\ sidx = 0
    /\ nidx = 0
    /\ isStageOK = FALSE
    /\ perr = Nil
    /\ exit = "none"
    /\ calls = <<>>
    /\ skipped = {}

\* Lines 645-681: copy the event, set its stage when it has none, reset Process.
ParseEntryStep ==
    /\ ppc = "entry"
    /\ event' = [Stage |-> EntryStage(xp, Stages), Process |-> EntryProcess(xp)]
    /\ sidx' = 1
    /\ ppc' = "stage"
    /\ UNCHANGED <<Stages, nodes, xp, nidx, isStageOK, perr, exit, calls, skipped>>

\* ParseEntry when the trace is off: nothing else moves.
ParseEntry ==
    /\ ParseEntryStep
    /\ UNCHANGED <<papiVars, syncVars, nodeVars, dumpVars>>

\* Lines 683-706: the head of one iteration of the stage loop.
ParseStageStep ==
    /\ ppc = "stage"
    /\ sidx <= Len(Stages)
    /\ LET stage == Stages[sidx] IN
        IF SeekSkipsStage(event.Stage, stage, Stages)
        THEN /\ skipped' = skipped \cup {sidx}
             /\ sidx' = sidx + 1
             /\ UNCHANGED <<event, ppc, nidx, isStageOK, exit>>
        ELSE IF event.Stage # stage
        THEN /\ event' = [event EXCEPT !.Process = FALSE]
             /\ ppc' = "done"
             /\ exit' = "behind"
             /\ UNCHANGED <<sidx, nidx, isStageOK, skipped>>
        ELSE /\ isStageOK' = FALSE
             /\ nidx' = 1
             /\ ppc' = "node"
             /\ UNCHANGED <<event, sidx, exit, skipped>>
    /\ UNCHANGED <<Stages, nodes, xp, perr, calls>>

\* ParseStage when the trace is off: nothing else moves.
ParseStage ==
    /\ ParseStageStep
    /\ UNCHANGED <<papiVars, syncVars, nodeVars, dumpVars>>

\* Lines 707-755: one iteration of the node loop.
ParseNodeStep ==
    /\ ppc = "node"
    /\ nidx <= Len(nodes)
    /\ LET stage == Stages[sidx]
           n == nodes[nidx]
       IN
        IF NodeIsSkipped(event.Stage, n)
        THEN /\ nidx' = nidx + 1
             /\ UNCHANGED <<event, ppc, isStageOK, perr, exit, calls>>
        ELSE \E ret \in BOOLEAN, err \in {Nil} \cup Errors,
                jump \in {NoJump} \cup StageUniverse :
             LET after == NodeStageAfter(n, event.Stage, ret, jump, Stages) IN
             /\ event' = [event EXCEPT !.Stage = after]
             /\ calls' = Append(calls, [node |-> nidx, stage |-> stage, ret |-> ret,
                                       err |-> err, jump |-> jump,
                                       before |-> event.Stage, after |-> after])
             /\ IF err # Nil
                THEN /\ perr' = err
                     /\ ppc' = "done"
                     /\ exit' = "error"
                     /\ UNCHANGED <<nidx, isStageOK>>
                ELSE /\ isStageOK' = StageOKAfter(isStageOK, ret)
                     /\ IF NodeLoopBreaks(ret, n, after, stage)
                        THEN ppc' = "stageend" /\ nidx' = nidx
                        ELSE ppc' = "node" /\ nidx' = nidx + 1
                     /\ UNCHANGED <<perr, exit>>
    /\ UNCHANGED <<Stages, nodes, xp, sidx, skipped>>

\* ParseNode when the trace is off: nothing else moves.
ParseNode ==
    /\ ParseNodeStep
    /\ UNCHANGED <<papiVars, syncVars, nodeVars, dumpVars>>

\* Line 707/755: the node loop ran out of nodes.
ParseNodesDoneStep ==
    /\ ppc = "node"
    /\ nidx > Len(nodes)
    /\ ppc' = "stageend"
    /\ UNCHANGED <<Stages, nodes, xp, event, sidx, nidx, isStageOK, perr, exit,
                   calls, skipped>>

\* ParseNodesDone when the trace is off: nothing else moves.
ParseNodesDone ==
    /\ ParseNodesDoneStep
    /\ UNCHANGED <<papiVars, syncVars, nodeVars, dumpVars>>

\* Mutant of ParseStageEnd: a stage no node matched does not end the call.
ParseStageEndGoesOn ==
    /\ ppc = "stageend"
    /\ sidx' = sidx + 1
    /\ ppc' = "stage"
    /\ UNCHANGED <<Stages, nodes, xp, event, nidx, isStageOK, perr, exit, calls,
                   skipped>>
    /\ UNCHANGED <<papiVars, syncVars, nodeVars, dumpVars>>

\* Lines 756-761: the end of one iteration of the stage loop.
ParseStageEndStep ==
    /\ ppc = "stageend"
    /\ IF ~isStageOK
       THEN /\ event' = [event EXCEPT !.Process = FALSE]
            /\ ppc' = "done"
            /\ exit' = "nomatch"
            /\ UNCHANGED sidx
       ELSE /\ sidx' = sidx + 1
            /\ ppc' = "stage"
            /\ UNCHANGED <<event, exit>>
    /\ UNCHANGED <<Stages, nodes, xp, nidx, isStageOK, perr, calls, skipped>>

\* ParseStageEnd when the trace is off: nothing else moves.
ParseStageEnd ==
    /\ ParseStageEndStep
    /\ UNCHANGED <<papiVars, syncVars, nodeVars, dumpVars>>

\* Mutant of ParseReturn: the event is returned with Process as the entry
\* left it.
ParseReturnKeepsProcess ==
    /\ ppc = "stage"
    /\ sidx > Len(Stages)
    /\ ppc' = "done"
    /\ exit' = "ok"
    /\ UNCHANGED <<Stages, nodes, xp, event, sidx, nidx, isStageOK, perr, calls, skipped>>
    /\ UNCHANGED <<papiVars, syncVars, nodeVars, dumpVars>>

\* Lines 763-764: every stage was passed.
ParseReturnStep ==
    /\ ppc = "stage"
    /\ sidx > Len(Stages)
    /\ event' = [event EXCEPT !.Process = TRUE]
    /\ ppc' = "done"
    /\ exit' = "ok"
    /\ UNCHANGED <<Stages, nodes, xp, sidx, nidx, isStageOK, perr, calls, skipped>>

\* ParseReturn when the trace is off: nothing else moves.
ParseReturn ==
    /\ ParseReturnStep
    /\ UNCHANGED <<papiVars, syncVars, nodeVars, dumpVars>>

\* ProcessStatics while it is not looked at.
StaticsIdle ==
    /\ nStatics = 0
    /\ evt = Nil
    /\ static = Nil
    /\ value = ""
    /\ outcome = "none"
    /\ prevOutcome = "none"
    /\ called = FALSE
    /\ stidx = 0
    /\ stpc = "idle"
    /\ sterr = Nil

\* The whitelist checks while they are not looked at.
WlIdle ==
    /\ Whitelist = Nil
    /\ wlEvent = Nil
    /\ ippc = "idle"
    /\ ipResult = FALSE
    /\ epc = "idle"
    /\ eidx = 0
    /\ isWhitelisted = FALSE
    /\ exprResult = [ok |-> FALSE, err |-> Nil]
    /\ evaluated = <<>>

\* The decision synchronisation while it is not looked at.
SyncIdle ==
    /\ ShareManualDecisions = "nil"
    /\ ConsoleManagement = "nil"
    /\ spc = "idle"
    /\ cache = <<>>
    /\ dying = FALSE
    /\ nextDecision = 0
    /\ flights = <<>>
    /\ outbound = <<>>

\* The Papi side while only Parse is looked at.
PapiIdle ==
    /\ db = ""
    /\ now = 1
    /\ qpc = "idle"
    /\ handled = <<>>
    /\ oerr = Nil
    /\ sync = FALSE
    /\ delivered = <<>>
    /\ reversedEvents = <<>>
    /\ ridx = 0
    /\ dbAtEntry = ""
    /\ lastTimestamp = 0
    /\ lastTimestampStr = ""
    /\ papiChan = "nil"
    /\ currentSubscriptionType = ""
    /\ ctxCancelled = FALSE
    /\ curEvent = [RequestId |-> 0, Data |-> ""]
    /\ binTime = ""
    /\ subscription = ""
    /\ refreshPending = FALSE
    /\ clientRunning = FALSE
    /\ stopSignal = FALSE
    /\ shutdownCalled = FALSE
    /\ shutdownAt = ""
    /\ nextId = 0
    /\ dbAtRecv = ""
    /\ handleOK = FALSE
    /\ interrupted = -1
    /\ startedSince = -1
    /\ startWhileRunning = FALSE

NextParse ==
    \/ ParseEntry
    \/ ParseStage
    \/ ParseNode
    \/ ParseNodesDone
    \/ ParseStageEnd
    \/ ParseReturn

InitSpecParse == InitParse /\ DumpIdle /\ PapiIdle /\ SyncIdle /\ StaticsIdle /\ WlIdle

SpecParse == InitSpecParse /\ [][NextParse]_vars

(***************************************************************************)
(* parser.Parse with the trace of the parsers on (ParseDump), and a second *)
(* call of Parse running at the same time on another event.                *)
(*                                                                         *)
(* The call of the variables of Parse is the call "a"; the second call,    *)
(* "b", is one whose event passes every stage, the node of the stage       *)
(* matching.  The code of a call between Lock and Unlock is one step, taken*)
(* when the mutex is free; the other steps of the call "a" are the ones of *)
(* Parse, the assignments of lines 743-755 being taken with the invocation *)
(* of the node, which they follow without touching the trace.              *)
(***************************************************************************)

\* Lines 676-678: the fresh trace.
MadeCache ==
    [nil |-> FALSE, stages |-> {"success"}, names |-> {<<"success", "">>},
     recs |-> [k \in StageUniverse \X TraceNames |-> <<>>]]

\* StageParseCache[stage][name], the nil slice when a key is missing.
Slice(c, stage, name) ==
    IF <<stage, name>> \in c.names THEN c.recs[<<stage, name>>] ELSE <<>>

\* Whether an assignment to StageParseCache[stage][name] panics: the inner
\* map is nil when the outer one does not hold the stage.
HitsNilMap(c, stage) == c.nil \/ stage \notin c.stages

\* Lines 686-688: the stage gets its map when it has none.  The assignment
\* panics on a nil outer map.
RegisterStage(c, stage) == [c EXCEPT !.stages = c.stages \cup {stage}]

\* Lines 729-734: the slice of the node is made when it is empty, and the
\* index of the parser in its stage is the number of names of the stage
\* then; it is the index of the first record of the slice otherwise.
IdxSection(c, stage, name) ==
    IF Len(Slice(c, stage, name)) = 0
    THEN LET made == [c EXCEPT !.names = c.names \cup {<<stage, name>>},
                               !.recs[<<stage, name>>] = <<>>]
         IN  [cache |-> made,
              idx |-> Cardinality({k \in made.names : k[1] = stage})]
    ELSE [cache |-> c, idx |-> Slice(c, stage, name)[1].Idx]

\* Line 740: the record is appended to the slice of the node.
AppendSection(c, stage, name, rec) ==
    [c EXCEPT !.names = c.names \cup {<<stage, name>>},
              !.recs[<<stage, name>>] = Append(Slice(c, stage, name), rec)]

\* The node lists of the traced calls: one node for each stage, in the
\* order of the stages, all with the same OnSuccess.
TracedNodes(os) ==
    [i \in 1..MaxStages |-> [Stage |-> AllStageNames[i], OnSuccess |-> os]]

\* Two calls of Parse are about to start, the trace is on and not made yet.
InitParseDump ==
    /\ Stages = SubSeq(AllStageNames, 1, MaxStages)
    /\ nodes \in {TracedNodes(os) : os \in OnSuccessValues}
    /\ xp = [Stage |-> "", Process |-> TRUE]
    /\ event = xp
    /\ ppc = "entry"
    /\ sidx = 0
    /\ nidx = 0
    /\ isStageOK = FALSE
    /\ perr = Nil
    /\ exit = "none"
    /\ calls = <<>>
    /\ skipped = {}
    /\ ParseDump = TRUE
    /\ StageParseCache = NoCache
    /\ StageParseMutex = ""
    /\ dpc = "none"
    /\ parserIdxInStage = 0
    /\ opc = "check"
    /\ ostage = 1
    /\ onode = 0
    /\ oidx = 0
    /\ oinvoked = 0
    /\ appended = 0

\* Lines 645-668 of the call "a"; lines 673-680 come next.
ParseDumpEntry ==
    /\ ParseDump
    /\ dpc = "none"
    /\ ParseEntryStep
    /\ dpc' = "check"
    /\ UNCHANGED <<ParseDump, StageParseCache, StageParseMutex, parserIdxInStage,
                   opc, ostage, onode, oidx, oinvoked, appended>>
    /\ UNCHANGED <<papiVars, syncVars, nodeVars>>

\* Line 674: StageParseCache is compared with nil; the mutex is not taken.
ParseDumpCheck ==
    /\ dpc = "check"
    /\ dpc' = IF StageParseCache.nil THEN "make" ELSE "none"
    /\ UNCHANGED <<ParseDump, StageParseCache, StageParseMutex, parserIdxInStage,
                   opc, ostage, onode, oidx, oinvoked, appended>>
    /\ UNCHANGED <<parseVars, papiVars, syncVars, nodeVars>>

\* Lines 675-679: the trace is made, whatever it holds by now.
ParseDumpMake ==
    /\ dpc = "make"
    /\ StageParseMutex = ""
    /\ StageParseCache' = MadeCache
    /\ dpc' = "none"
    /\ UNCHANGED <<ParseDump, StageParseMutex, parserIdxInStage,
                   opc, ostage, onode, oidx, oinvoked, appended>>
    /\ UNCHANGED <<parseVars, papiVars, syncVars, nodeVars>>

\* Lines 683-706: the head of one iteration of the stage loop, the stage
\* being given its map first (lines 684-690).
ParseDumpStage ==
    /\ dpc = "none"
    /\ ppc = "stage"
    /\ sidx <= Len(Stages)
    /\ StageParseMutex = ""
    /\ IF StageParseCache.nil
       THEN /\ ppc' = "panic"
            /\ exit' = "panic"
            /\ dpc' = "panic"
            /\ StageParseMutex' = "a"
            /\ UNCHANGED <<Stages, nodes, xp, event, sidx, nidx, isStageOK, perr,
                           calls, skipped, StageParseCache>>
       ELSE /\ StageParseCache' = RegisterStage(StageParseCache, Stages[sidx])
            /\ ParseStageStep
            /\ UNCHANGED <<dpc, StageParseMutex>>
    /\ UNCHANGED <<ParseDump, parserIdxInStage, opc, ostage, onode, oidx, oinvoked,
                   appended>>
    /\ UNCHANGED <<papiVars, syncVars, nodeVars>>

\* Lines 707-725 and 743-755: one iteration of the node loop; a node that
\* was invoked and returned no error is recorded next (lines 726-742).
ParseDumpNode ==
    /\ dpc = "none"
    /\ ParseNodeStep
    /\ dpc' = IF Len(calls') > Len(calls) /\ calls'[Len(calls')].err = Nil
              THEN "idx" ELSE "none"
    /\ UNCHANGED <<ParseDump, StageParseCache, StageParseMutex, parserIdxInStage,
                   opc, ostage, onode, oidx, oinvoked, appended>>
    /\ UNCHANGED <<papiVars, syncVars, nodeVars>>

\* Lines 728-735 of the call "a", for the node it has just invoked.
ParseDumpIdx ==
    /\ dpc = "idx"
    /\ StageParseMutex = ""
    /\ LET c == calls[Len(calls)]
           name == NodeNames[c.node]
           r == IdxSection(StageParseCache, c.stage, name)
       IN  IF Len(Slice(StageParseCache, c.stage, name)) = 0
              /\ HitsNilMap(StageParseCache, c.stage)
           THEN /\ ppc' = "panic"
                /\ exit' = "panic"
                /\ dpc' = "panic"
                /\ StageParseMutex' = "a"
                /\ UNCHANGED <<StageParseCache, parserIdxInStage>>
           ELSE /\ StageParseCache' = r.cache
                /\ parserIdxInStage' = r.idx
                /\ dpc' = "append"
                /\ UNCHANGED <<ppc, exit, StageParseMutex>>
    /\ UNCHANGED <<Stages, nodes, xp, event, sidx, nidx, isStageOK, perr, calls, skipped>>
    /\ UNCHANGED <<ParseDump, opc, ostage, onode, oidx, oinvoked, appended>>
    /\ UNCHANGED <<papiVars, syncVars, nodeVars>>

\* Lines 737-741 of the call "a": the copy of the event is appended.
ParseDumpAppend ==
    /\ dpc = "append"
    /\ StageParseMutex = ""
    /\ LET c == calls[Len(calls)]
           rec == [Evt |-> [id |-> "a", Stage |-> c.after], Success |-> c.ret,
                   Idx |-> parserIdxInStage]
       IN  IF HitsNilMap(StageParseCache, c.stage)
           THEN /\ ppc' = "panic"
                /\ exit' = "panic"
                /\ dpc' = "panic"
                /\ StageParseMutex' = "a"
                /\ UNCHANGED <<StageParseCache, appended>>
           ELSE /\ StageParseCache' =
                       AppendSection(StageParseCache, c.stage, NodeNames[c.node], rec)
                /\ appended' = appended + 1
                /\ dpc' = "none"
                /\ UNCHANGED <<ppc, exit, StageParseMutex>>
    /\ UNCHANGED <<Stages, nodes, xp, event, sidx, nidx, isStageOK, perr, calls, skipped>>
    /\ UNCHANGED <<ParseDump, parserIdxInStage, opc, ostage, onode, oidx, oinvoked>>
    /\ UNCHANGED <<papiVars, syncVars, nodeVars>>

\* Line 707/755 of the call "a".
ParseDumpNodesDone ==
    /\ dpc = "none"
    /\ ParseNodesDoneStep
    /\ UNCHANGED <<dumpVars, papiVars, syncVars, nodeVars>>

\* Lines 756-761 of the call "a".
ParseDumpStageEnd ==
    /\ dpc = "none"
    /\ ParseStageEndStep
    /\ UNCHANGED <<dumpVars, papiVars, syncVars, nodeVars>>

\* Lines 763-764 of the call "a".
ParseDumpReturn ==
    /\ dpc = "none"
    /\ ParseReturnStep
    /\ UNCHANGED <<dumpVars, papiVars, syncVars, nodeVars>>

\* Line 674 of the call "b".
OtherCheck ==
    /\ opc = "check"
    /\ opc' = IF StageParseCache.nil THEN "make" ELSE "stage"
    /\ UNCHANGED <<ParseDump, StageParseCache, StageParseMutex, dpc, parserIdxInStage,
                   ostage, onode, oidx, oinvoked, appended>>
    /\ UNCHANGED <<parseVars, papiVars, syncVars, nodeVars>>

\* Lines 675-679 of the call "b".
OtherMake ==
    /\ opc = "make"
    /\ StageParseMutex = ""
    /\ StageParseCache' = MadeCache
    /\ opc' = "stage"
    /\ UNCHANGED <<ParseDump, StageParseMutex, dpc, parserIdxInStage,
                   ostage, onode, oidx, oinvoked, appended>>
    /\ UNCHANGED <<parseVars, papiVars, syncVars, nodeVars>>

\* Lines 684-690 of the call "b", and the invocation of the node of the
\* stage (line 720).
OtherStage ==
    /\ opc = "stage"
    /\ ostage <= Len(Stages)
    /\ StageParseMutex = ""
    /\ IF StageParseCache.nil
       THEN /\ opc' = "panic"
            /\ StageParseMutex' = "b"
            /\ UNCHANGED <<StageParseCache, onode, oinvoked>>
       ELSE /\ StageParseCache' = RegisterStage(StageParseCache, Stages[ostage])
            /\ \E k \in DOMAIN nodes :
                  /\ nodes[k].Stage = Stages[ostage]
                  /\ onode' = k
            /\ oinvoked' = oinvoked + 1
            /\ opc' = "idx"
            /\ UNCHANGED StageParseMutex
    /\ UNCHANGED <<ParseDump, dpc, parserIdxInStage, ostage, oidx, appended>>
    /\ UNCHANGED <<parseVars, papiVars, syncVars, nodeVars>>

\* Lines 728-735 of the call "b".
OtherIdx ==
    /\ opc = "idx"
    /\ StageParseMutex = ""
    /\ LET stage == Stages[ostage]
           name == NodeNames[onode]
           r == IdxSection(StageParseCache, stage, name)
       IN  IF Len(Slice(StageParseCache, stage, name)) = 0
              /\ HitsNilMap(StageParseCache, stage)
           THEN /\ opc' = "panic"
                /\ StageParseMutex' = "b"
                /\ UNCHANGED <<StageParseCache, oidx>>
           ELSE /\ StageParseCache' = r.cache
                /\ oidx' = r.idx
                /\ opc' = "append"
                /\ UNCHANGED StageParseMutex
    /\ UNCHANGED <<ParseDump, dpc, parserIdxInStage, ostage, onode, oinvoked, appended>>
    /\ UNCHANGED <<parseVars, papiVars, syncVars, nodeVars>>

\* Lines 737-741 of the call "b", whose node matched and moved the event to
\* the next stage.
OtherAppend ==
    /\ opc = "append"
    /\ StageParseMutex = ""
    /\ LET stage == Stages[ostage]
           rec == [Evt |-> [id |-> "b", Stage |-> stage], Success |-> TRUE,
                   Idx |-> oidx]
       IN  IF HitsNilMap(StageParseCache, stage)
           THEN /\ opc' = "panic"
                /\ StageParseMutex' = "b"
                /\ UNCHANGED <<StageParseCache, appended, ostage>>
           ELSE /\ StageParseCache' =
                       AppendSection(StageParseCache, stage, NodeNames[onode], rec)
                /\ appended' = appended + 1
                /\ ostage' = ostage + 1
                /\ opc' = "stage"
                /\ UNCHANGED StageParseMutex
    /\ UNCHANGED <<ParseDump, dpc, parserIdxInStage, onode, oidx, oinvoked>>
    /\ UNCHANGED <<parseVars, papiVars, syncVars, nodeVars>>

\* Lines 763-764 of the call "b".
OtherReturn ==
    /\ opc = "stage"
    /\ ostage > Len(Stages)
    /\ opc' = "done"
    /\ UNCHANGED <<ParseDump, StageParseCache, StageParseMutex, dpc, parserIdxInStage,
                   ostage, onode, oidx, oinvoked, appended>>
    /\ UNCHANGED <<parseVars, papiVars, syncVars, nodeVars>>

InitSpecParseDump == InitParseDump /\ PapiIdle /\ SyncIdle /\ StaticsIdle /\ WlIdle

NextParseDump ==
    \/ ParseDumpEntry
    \/ ParseDumpCheck
    \/ ParseDumpMake
    \/ ParseDumpStage
    \/ ParseDumpNode
    \/ ParseDumpIdx
    \/ ParseDumpAppend
    \/ ParseDumpNodesDone
    \/ ParseDumpStageEnd
    \/ ParseDumpReturn
    \/ OtherCheck
    \/ OtherMake
    \/ OtherStage
    \/ OtherIdx
    \/ OtherAppend
    \/ OtherReturn

\* Two calls of Parse at the same time, the trace being on.
SpecParseDump == InitSpecParseDump /\ [][NextParseDump]_vars


(***************************************************************************)
(* apiserver.Papi: handleEvent and PullOnce                                *)
(***************************************************************************)

\* The payloads of the model, by what they decode to: not JSON of a Message,
\* a Message without header, a header without source (with a known operation
\* type), a full header of unknown operation type, or a full header with one
\* of the known operation types.
PayloadKinds == {"undecodable", "noheader", "nosource",
                 "unknown", "decision", "alert", "management"}

\* operationMap: the operation types that have a handler.
operationMap == {"decision", "alert", "management"}

\* Lines 132-135: json.Unmarshal of the payload into a Message.  Header and
\* Source tell whether the pointers are non-nil.
Unmarshal(data) ==
    CASE data = "undecodable" ->
             [err |-> TRUE, Header |-> FALSE, Source |-> FALSE, OperationType |-> ""]
      [] data = "noheader" ->
             [err |-> FALSE, Header |-> FALSE, Source |-> FALSE, OperationType |-> ""]
      [] data = "nosource" ->
             [err |-> FALSE, Header |-> TRUE, Source |-> FALSE,
              OperationType |-> "decision"]
      [] OTHER ->
             [err |-> FALSE, Header |-> TRUE, Source |-> TRUE, OperationType |-> data]

\* Mutant of HandleEventCall: the source of the header is not looked at.
HandleEventCallNoSourceCheck(data, opOK) ==
    LET message == Unmarshal(data) IN
    IF message.err THEN [op |-> "", err |-> "format not compatible"]
    ELSE IF ~message.Header THEN [op |-> "", err |-> "no header"]
    ELSE IF message.OperationType \notin operationMap
         THEN [op |-> "", err |-> "operation unknown"]
    ELSE [op |-> message.OperationType,
          err |-> IF opOK THEN Nil ELSE "operation failed"]

\* Lines 128-158: one call of handleEvent on an event of payload `data`, opOK
\* telling whether the operation handler, if called, succeeds: the handler
\* that is called ("" for none) and the returned error (Nil for none).
HandleEventCall(data, opOK) ==
    LET message == Unmarshal(data) IN
    IF message.err THEN [op |-> "", err |-> "format not compatible"]
    ELSE IF ~message.Header THEN [op |-> "", err |-> "no header"]
    ELSE IF ~message.Source THEN [op |-> "", err |-> "no source user"]
    ELSE IF message.OperationType \notin operationMap
         THEN [op |-> "", err |-> "operation unknown"]
    ELSE [op |-> message.OperationType,
          err |-> IF opOK THEN Nil ELSE "operation failed"]

\* handleEvent: the error it returns.
handleEvent(data, opOK) == HandleEventCall(data, opOK).err

\* The record of one handleEvent call: the event, the bulk flag, the handler
\* that was called ("" for none) and the returned error.
HandleRecord(ev, bulk, opOK) ==
    [RequestId |-> ev.RequestId,
     Data |-> ev.Data,
     sync |-> bulk,
     op |-> HandleEventCall(ev.Data, opOK).op,
     err |-> HandleEventCall(ev.Data, opOK).err]

\* The batches the transport can return: events numbered in delivery order.
Batches ==
    UNION {{[i \in 1..n |-> [RequestId |-> i, Data |-> k[i]]] :
               k \in [1..n -> PayloadKinds]} : n \in 0..MaxBatch}

\* Mutant of reverse: the copy is returned as it was delivered.
reverseNoSwap(s) == s

\* The loop of reverse: swap a[i] and a[len-1-i] for i = len/2-1 down to 0
\* (0-based positions).
RECURSIVE reverseSwaps(_, _)
reverseSwaps(a, i) ==
    IF i < 0 THEN a
    ELSE LET opp == Len(a) - 1 - i
         IN  reverseSwaps([a EXCEPT ![i + 1] = a[opp + 1], ![opp + 1] = a[i + 1]],
                          i - 1)

reverse(s) == reverseSwaps(s, (Len(s) \div 2) - 1)

\* The texts of the times 0 (the zero time.Time), 1, 2, ... as MarshalText
\* writes them.
TimeTexts == <<"0001-01-01T00:00:00Z", "2026-01-01T00:00:01Z",
               "2026-01-01T00:00:02Z", "2026-01-01T00:00:03Z",
               "2026-01-01T00:00:04Z", "2026-01-01T00:00:05Z">>

MarshalText(tm) == TimeTexts[tm + 1]

\* UnmarshalText: the time a text parses to, -1 when it does not parse.
UnmarshalText(s) ==
    IF \E i \in 1..Len(TimeTexts) : TimeTexts[i] = s
    THEN (CHOOSE i \in 1..Len(TimeTexts) : TimeTexts[i] = s) - 1
    ELSE -1

\* What the store can hold under PapiPullKey when Pull or PullOnce starts.
StoredValues == {"", MarshalText(0), MarshalText(1), "not-a-time"}

\* The parts of Papi that PullOnce does not touch.
PullIdle ==
    /\ lastTimestamp = 0
    /\ lastTimestampStr = ""
    /\ papiChan = "nil"
    /\ currentSubscriptionType = ""
    /\ ctxCancelled = FALSE
    /\ curEvent = [RequestId |-> 0, Data |-> ""]
    /\ binTime = ""
    /\ subscription = ""
    /\ refreshPending = FALSE
    /\ clientRunning = FALSE
    /\ stopSignal = FALSE
    /\ shutdownCalled = FALSE
    /\ shutdownAt = ""
    /\ nextId = 0
    /\ dbAtRecv = ""
    /\ handleOK = FALSE
    /\ interrupted = -1
    /\ startedSince = -1
    /\ startWhileRunning = FALSE

ParseIdle ==
    /\ Stages = <<>>
    /\ nodes = <<>>
    /\ xp = [Stage |-> "", Process |-> FALSE]
    /\ event = [Stage |-> "", Process |-> FALSE]
    /\ ppc = "idle"
    /\ sidx = 0
    /\ nidx = 0
    /\ isStageOK = FALSE
    /\ perr = Nil
    /\ exit = "none"
    /\ calls = <<>>
    /\ skipped = {}
    /\ DumpIdle

InitPullOnce ==
    /\ db \in StoredValues
    /\ now = 1
    /\ qpc = "once_entry"
    /\ handled = <<>>
    /\ oerr = Nil
    /\ sync \in BOOLEAN
    /\ delivered = <<>>
    /\ reversedEvents = <<>>
    /\ ridx = 0
    /\ dbAtEntry = db

\* Lines 210-217: pull the batch, which may fail, and reverse it.
PullOnceCall ==
    /\ qpc = "once_entry"
    /\ \/ /\ oerr' = "pull failed"
          /\ qpc' = "once_done"
          /\ UNCHANGED <<delivered, reversedEvents, ridx>>
       \/ \E events \in Batches :
          /\ delivered' = events
          /\ reversedEvents' = reverse(events)
          /\ ridx' = 1
          /\ qpc' = "once_loop"
          /\ UNCHANGED oerr
    /\ UNCHANGED <<storeVars, handled, sync, dbAtEntry, pullVars, parseVars, dumpVars, nodeVars, syncVars>>

\* Mutant of PullOnceHandle: the time of the pull is stored after an event
\* was handled, as the real-time loop does.
PullOnceHandleStoresTime ==
    /\ qpc = "once_loop"
    /\ ridx <= Len(reversedEvents)
    /\ \E opOK \in BOOLEAN :
        /\ handled' = Append(handled, HandleRecord(reversedEvents[ridx], sync, opOK))
        /\ db' = IF handleEvent(reversedEvents[ridx].Data, opOK) = Nil
                 THEN MarshalText(now) ELSE db
    /\ ridx' = ridx + 1
    /\ UNCHANGED <<now, qpc, oerr, sync, delivered, reversedEvents, dbAtEntry,
                   pullVars, parseVars, dumpVars, nodeVars, syncVars>>

\* Lines 219-225: one iteration of the loop; an error is logged and the loop
\* goes on.
PullOnceHandle ==
    /\ qpc = "once_loop"
    /\ ridx <= Len(reversedEvents)
    /\ \E opOK \in BOOLEAN :
        handled' = Append(handled, HandleRecord(reversedEvents[ridx], sync, opOK))
    /\ ridx' = ridx + 1
    /\ UNCHANGED <<storeVars, qpc, oerr, sync, delivered, reversedEvents, dbAtEntry,
                   pullVars, parseVars, dumpVars, nodeVars, syncVars>>

\* Lines 227-230: the batch is done; the stored time is left alone.
PullOnceReturn ==
    /\ qpc = "once_loop"
    /\ ridx > Len(reversedEvents)
    /\ qpc' = "once_done"
    /\ oerr' = Nil
    /\ UNCHANGED <<storeVars, handled, sync, delivered, reversedEvents, ridx,
                   dbAtEntry, pullVars, parseVars, dumpVars, nodeVars, syncVars>>

InitSpecPullOnce == InitPullOnce /\ PullIdle /\ ParseIdle /\ SyncIdle /\ StaticsIdle /\ WlIdle

NextPullOnce ==
    \/ PullOnceCall
    \/ PullOnceHandle
    \/ PullOnceReturn

SpecPullOnce == InitSpecPullOnce /\ [][NextPullOnce]_vars

(***************************************************************************)
(* apiserver.Papi: Pull, the real-time loop, and Shutdown                  *)
(***************************************************************************)

\* The subscription types; the last two grant the use of the polling API.
SubscriptionTypes == {"COMMUNITY", "ENTERPRISE", "SECOPS"}

\* Mutant of GrantsPolling: only the Enterprise subscription grants polling.
GrantsPollingEnterpriseOnly(subType) == subType = "ENTERPRISE"

\* Lines 271 and 288.
GrantsPolling(subType) == subType = "ENTERPRISE" \/ subType = "SECOPS"

\* Line 303: the clock as time.Now() reads it; time may have passed since the
\* last reading.
ClockReadings == {c \in {now, now + 1} : c <= MaxClock}

InitPull ==
    /\ db \in StoredValues
    /\ now = 1
    /\ qpc = "start"
    /\ handled = <<>>
    /\ oerr = Nil
    /\ lastTimestamp = 0
    /\ lastTimestampStr = ""
    /\ papiChan = "nil"
    /\ currentSubscriptionType = ""
    /\ ctxCancelled = FALSE
    /\ curEvent = [RequestId |-> 0, Data |-> ""]
    /\ binTime = ""
    /\ subscription \in SubscriptionTypes
    /\ refreshPending = FALSE
    /\ clientRunning = FALSE
    /\ stopSignal = FALSE
    /\ shutdownCalled = FALSE
    /\ shutdownAt = ""
    /\ nextId = 0
    /\ dbAtRecv = db
    /\ handleOK = FALSE
    /\ interrupted = -1
    /\ startedSince = -1
    /\ startWhileRunning = FALSE

OnceIdle ==
    /\ sync = FALSE
    /\ delivered = <<>>
    /\ reversedEvents = <<>>
    /\ ridx = 0
    /\ dbAtEntry = ""

\* Mutant of StartupWrite: the zero time is written whatever was read.
StartupWriteAlways(str, writeOK, stored) ==
    IF writeOK THEN MarshalText(0) ELSE stored

\* Lines 246-256: what the store holds after the startup, str being what was
\* read: the zero time is written when nothing was read, and the write may
\* fail, which is logged.
StartupWrite(str, writeOK, stored) ==
    IF str = "" /\ writeOK THEN MarshalText(0) ELSE stored

\* Mutant of PullStart: a failed read of the stored time ends Pull with an
\* error.
PullStartFailsOnReadError ==
    /\ qpc = "start"
    /\ \E readOK, writeOK \in BOOLEAN :
        LET str == IF readOK THEN db ELSE ""
            parsed == UnmarshalText(str)
        IN
        /\ lastTimestampStr' = str
        /\ IF ~readOK \/ (str # "" /\ parsed = -1)
           THEN /\ oerr' = "failed to get last timestamp"
                /\ qpc' = "failed"
                /\ UNCHANGED <<db, lastTimestamp, papiChan, currentSubscriptionType,
                               clientRunning, startedSince, startWhileRunning>>
           ELSE /\ lastTimestamp' = IF str = "" THEN 0 ELSE parsed
                /\ db' = StartupWrite(str, writeOK, db)
                /\ currentSubscriptionType' = subscription
                /\ IF GrantsPolling(subscription)
                   THEN /\ papiChan' = "open"
                        /\ startWhileRunning' = (startWhileRunning \/ clientRunning)
                        /\ clientRunning' = TRUE
                        /\ startedSince' = lastTimestamp'
                   ELSE UNCHANGED <<papiChan, clientRunning, startedSince,
                                    startWhileRunning>>
                /\ qpc' = "select"
                /\ UNCHANGED oerr
    /\ UNCHANGED <<now, handled, ctxCancelled, curEvent, binTime, subscription,
                   refreshPending, stopSignal, shutdownCalled, shutdownAt, nextId, dbAtRecv,
                   handleOK, interrupted, onceVars, parseVars, dumpVars, nodeVars, syncVars>>

\* Lines 238-276: read the stored time (a failed read leaves the empty
\* string), store the zero time when there is none, parse it otherwise; then
\* start polling when the subscription grants it.
PullStart ==
    /\ qpc = "start"
    /\ \E readOK, writeOK \in BOOLEAN :
        LET str == IF readOK THEN db ELSE ""
            parsed == UnmarshalText(str)
        IN
        /\ lastTimestampStr' = str
        /\ IF str # "" /\ parsed = -1
           THEN /\ oerr' = "failed to parse last timestamp"
                /\ qpc' = "failed"
                /\ UNCHANGED <<db, lastTimestamp, papiChan, currentSubscriptionType,
                               clientRunning, startedSince, startWhileRunning>>
           ELSE /\ lastTimestamp' = IF str = "" THEN 0 ELSE parsed
                /\ db' = StartupWrite(str, writeOK, db)
                /\ currentSubscriptionType' = subscription
                /\ IF GrantsPolling(subscription)
                   THEN /\ papiChan' = "open"
                        /\ startWhileRunning' = (startWhileRunning \/ clientRunning)
                        /\ clientRunning' = TRUE
                        /\ startedSince' = lastTimestamp'
                   ELSE UNCHANGED <<papiChan, clientRunning, startedSince,
                                    startWhileRunning>>
                /\ qpc' = "select"
                /\ UNCHANGED oerr
    /\ UNCHANGED <<now, handled, ctxCancelled, curEvent, binTime, subscription,
                   refreshPending, stopSignal, shutdownCalled, shutdownAt, nextId, dbAtRecv,
                   handleOK, interrupted, onceVars, parseVars, dumpVars, nodeVars, syncVars>>

\* The token was refreshed: the subscription type may have changed, and a
\* notification is put on tokenRefreshChan.
TokenRefreshed ==
    /\ qpc \in {"select", "dispatch", "persist"}
    /\ ~refreshPending
    /\ \E subType \in SubscriptionTypes : subscription' = subType
    /\ refreshPending' = TRUE
    /\ UNCHANGED <<storeVars, qpc, handled, oerr, onceVars, loopVars, clientRunning,
                   stopSignal, shutdownCalled, shutdownAt, nextId, histVars, parseVars, dumpVars, nodeVars, syncVars>>

\* Mutant of PullSubscriptionChange: after a downgrade the cancelled context
\* is kept, no fresh one is made.
PullSubscriptionChangeKeepsContext ==
    /\ qpc = "select"
    /\ ~stopSignal
    /\ refreshPending
    /\ refreshPending' = FALSE
    /\ LET subType == subscription IN
        IF subType = currentSubscriptionType
        THEN UNCHANGED <<currentSubscriptionType, papiChan, ctxCancelled,
                         clientRunning, startedSince, startWhileRunning>>
        ELSE /\ currentSubscriptionType' = subType
             /\ IF GrantsPolling(subType)
                THEN /\ papiChan' = "open"
                     /\ startWhileRunning' = (startWhileRunning \/ clientRunning)
                     /\ clientRunning' = TRUE
                     /\ startedSince' = lastTimestamp
                     /\ UNCHANGED ctxCancelled
                ELSE /\ clientRunning' = FALSE
                     /\ ctxCancelled' = TRUE
                     /\ papiChan' = "nil"
                     /\ UNCHANGED <<startedSince, startWhileRunning>>
    /\ UNCHANGED <<storeVars, qpc, handled, oerr, onceVars, lastTimestamp,
                   lastTimestampStr, curEvent,
                   binTime, subscription, stopSignal, shutdownCalled, shutdownAt, nextId,
                   dbAtRecv, handleOK, interrupted, parseVars, dumpVars, nodeVars, syncVars>>

\* Lines 280-299: the case of tokenRefreshChan.
PullSubscriptionChange ==
    /\ qpc = "select"
    /\ ~stopSignal
    /\ refreshPending
    /\ refreshPending' = FALSE
    /\ LET subType == subscription IN
        IF subType = currentSubscriptionType
        THEN UNCHANGED <<currentSubscriptionType, papiChan, ctxCancelled,
                         clientRunning, startedSince, startWhileRunning>>
        ELSE /\ currentSubscriptionType' = subType
             /\ IF GrantsPolling(subType)
                THEN /\ papiChan' = "open"
                     /\ startWhileRunning' = (startWhileRunning \/ clientRunning)
                     /\ clientRunning' = TRUE
                     /\ startedSince' = lastTimestamp
                     /\ UNCHANGED ctxCancelled
                ELSE /\ clientRunning' = FALSE
                     /\ ctxCancelled' = FALSE
                     /\ papiChan' = "nil"
                     /\ UNCHANGED <<startedSince, startWhileRunning>>
    /\ UNCHANGED <<storeVars, qpc, handled, oerr, onceVars, lastTimestamp,
                   lastTimestampStr, curEvent,
                   binTime, subscription, stopSignal, shutdownCalled, shutdownAt, nextId,
                   dbAtRecv, handleOK, interrupted, parseVars, dumpVars, nodeVars, syncVars>>

\* Mutant of PullReceive: the new time is stored before the event is handled.
PullReceiveStoresTime ==
    /\ qpc = "select"
    /\ ~stopSignal
    /\ papiChan = "open"
    /\ clientRunning
    /\ ~ctxCancelled
    /\ nextId < MaxEvents
    /\ \E data \in PayloadKinds, newTime \in ClockReadings :
        /\ curEvent' = [RequestId |-> nextId + 1, Data |-> data]
        /\ now' = newTime
        /\ binTime' = MarshalText(newTime)
        /\ lastTimestamp' = newTime
        /\ db' = MarshalText(newTime)
    /\ nextId' = nextId + 1
    /\ dbAtRecv' = db
    /\ qpc' = "dispatch"
    /\ UNCHANGED <<handled, oerr, onceVars, lastTimestampStr, papiChan,
                   currentSubscriptionType,
                   ctxCancelled, subscription, refreshPending, clientRunning,
                   stopSignal, shutdownCalled, shutdownAt, handleOK, interrupted, startedSince,
                   startWhileRunning, parseVars, dumpVars, nodeVars, syncVars>>

\* Lines 300-307: an event comes out of papiChan; the new time is computed
\* and kept in lastTimestamp.
PullReceive ==
    /\ qpc = "select"
    /\ ~stopSignal
    /\ papiChan = "open"
    /\ clientRunning
    /\ ~ctxCancelled
    /\ nextId < MaxEvents
    /\ \E data \in PayloadKinds, newTime \in ClockReadings :
        /\ curEvent' = [RequestId |-> nextId + 1, Data |-> data]
        /\ now' = newTime
        /\ binTime' = MarshalText(newTime)
        /\ lastTimestamp' = newTime
    /\ nextId' = nextId + 1
    /\ dbAtRecv' = db
    /\ qpc' = "dispatch"
    /\ UNCHANGED <<db, handled, oerr, onceVars, lastTimestampStr, papiChan,
                   currentSubscriptionType,
                   ctxCancelled, subscription, refreshPending, clientRunning,
                   stopSignal, shutdownCalled, shutdownAt, handleOK, interrupted, startedSince,
                   startWhileRunning, parseVars, dumpVars, nodeVars, syncVars>>

\* Mutant of PullDispatch: the loop does not `continue` when handleEvent fails.
PullDispatchNoContinue ==
    /\ qpc = "dispatch"
    /\ \E opOK \in BOOLEAN :
        handleOK' = (handleEvent(curEvent.Data, opOK) = Nil)
    /\ qpc' = "persist"
    /\ UNCHANGED <<storeVars, handled, oerr, onceVars, loopVars, envVars, dbAtRecv,
                   interrupted, startedSince, startWhileRunning, parseVars, dumpVars, nodeVars, syncVars>>

\* Mutant of PullDispatch: an error of handleEvent is returned by Pull.
PullDispatchReturnsError ==
    /\ qpc = "dispatch"
    /\ \E opOK \in BOOLEAN :
        /\ handleOK' = (handleEvent(curEvent.Data, opOK) = Nil)
        /\ qpc' = IF handleEvent(curEvent.Data, opOK) = Nil THEN "persist" ELSE "failed"
        /\ oerr' = handleEvent(curEvent.Data, opOK)
    /\ UNCHANGED <<storeVars, handled, onceVars, loopVars, envVars, dbAtRecv,
                   interrupted, startedSince, startWhileRunning, parseVars, dumpVars, nodeVars, syncVars>>

\* Lines 309-313: the event is handled; on an error the loop goes back to the
\* select.
PullDispatch ==
    /\ qpc = "dispatch"
    /\ \E opOK \in BOOLEAN :
        /\ handleOK' = (handleEvent(curEvent.Data, opOK) = Nil)
        /\ qpc' = IF handleEvent(curEvent.Data, opOK) = Nil THEN "persist" ELSE "select"
    /\ UNCHANGED <<storeVars, handled, oerr, onceVars, loopVars, envVars, dbAtRecv,
                   interrupted, startedSince, startWhileRunning, parseVars, dumpVars, nodeVars, syncVars>>

\* Lines 315-320: the new time is stored; a failure to store it is logged.
PullPersist ==
    /\ qpc = "persist"
    /\ \E writeOK \in BOOLEAN : db' = IF writeOK THEN binTime ELSE db
    /\ qpc' = "select"
    /\ UNCHANGED <<now, handled, oerr, onceVars, pullVars, parseVars, dumpVars, nodeVars, syncVars>>

\* Mutant of Shutdown: the send on stopChan has no default case and waits for
\* the loop to receive.
ShutdownBlockingSend ==
    /\ qpc = "select"
    /\ ~shutdownCalled
    /\ shutdownCalled' = TRUE
    /\ shutdownAt' = qpc
    /\ dying' = TRUE
    /\ stopSignal' = TRUE
    /\ clientRunning' = FALSE
    /\ UNCHANGED <<storeVars, qpc, handled, oerr, onceVars, loopVars, subscription,
                   refreshPending, nextId, histVars, parseVars, dumpVars, nodeVars,
                   ShareManualDecisions, ConsoleManagement, spc, cache,
                   nextDecision, flights, outbound>>

\* Lines 403-411: Shutdown, called once, at any position of Pull, also before
\* it has started or after it has returned.  The tomb of SyncDecisions is
\* killed; the send on the unbuffered stopChan goes through only when the
\* loop waits in its select, the default case drops it otherwise; then the
\* transport is stopped.
Shutdown ==
    /\ ~shutdownCalled
    /\ shutdownCalled' = TRUE
    /\ shutdownAt' = qpc
    /\ dying' = TRUE
    /\ stopSignal' = (qpc = "select")
    /\ clientRunning' = FALSE
    /\ UNCHANGED <<storeVars, qpc, handled, oerr, onceVars, loopVars, subscription,
                   refreshPending, nextId, histVars, parseVars, dumpVars, nodeVars,
                   ShareManualDecisions, ConsoleManagement, spc, cache,
                   nextDecision, flights, outbound>>

\* Lines 321-322: the case of stopChan.
PullStop ==
    /\ qpc = "select"
    /\ stopSignal
    /\ stopSignal' = FALSE
    /\ ctxCancelled' = TRUE
    /\ UNCHANGED <<storeVars, qpc, handled, oerr, onceVars, lastTimestamp,
                   lastTimestampStr, papiChan, currentSubscriptionType, curEvent, binTime, subscription,
                   refreshPending, clientRunning, shutdownCalled, shutdownAt, nextId, histVars,
                   parseVars, dumpVars, nodeVars, syncVars>>

\* The process dies while the loop runs and Pull is started again (line 234):
\* the locals are lost, what is stored stays.
CrashRestart ==
    /\ qpc \in {"select", "dispatch", "persist"}
    /\ ~shutdownCalled
    /\ qpc' = "start"
    /\ interrupted' = IF qpc = "dispatch" THEN lastTimestamp ELSE -1
    /\ lastTimestamp' = 0
    /\ lastTimestampStr' = ""
    /\ papiChan' = "nil"
    /\ currentSubscriptionType' = ""
    /\ ctxCancelled' = FALSE
    /\ binTime' = ""
    /\ refreshPending' = FALSE
    /\ clientRunning' = FALSE
    /\ stopSignal' = FALSE
    /\ startedSince' = -1
    /\ UNCHANGED <<storeVars, handled, oerr, onceVars, curEvent, subscription,
                   shutdownCalled, shutdownAt, nextId, dbAtRecv, handleOK, startWhileRunning,
                   parseVars, dumpVars, nodeVars, syncVars>>

InitSpecPull == InitPull /\ OnceIdle /\ ParseIdle /\ SyncIdle /\ StaticsIdle /\ WlIdle

NextPull ==
    \/ PullStart
    \/ TokenRefreshed
    \/ PullSubscriptionChange
    \/ PullReceive
    \/ PullDispatch
    \/ PullPersist
    \/ Shutdown
    \/ PullStop
    \/ CrashRestart

SpecPull == InitSpecPull /\ [][NextPull]_vars

\* The goroutine of Pull is scheduled: a step of its loop that can be taken
\* for good is taken in the end.
SpecPullLive ==
    /\ SpecPull
    /\ WF_vars(PullStart)
    /\ WF_vars(PullDispatch)
    /\ WF_vars(PullPersist)
    /\ WF_vars(PullStop)
    /\ WF_vars(PullSubscriptionChange)

(***************************************************************************)
(* apiserver.Papi: SendDeletedDecisions and SyncDecisions                  *)
(***************************************************************************)

\* Line 391.
batchSize == 50

\* Line 394: Go's builtin min.
min(a, b) == IF a < b THEN a ELSE b

\* A *bool of the console configuration.
PolicyValues == {"nil", "false", "true"}

\* Line 359: the condition under which deleted decisions are kept.
SharingEnabled(share, console) ==
    \/ (share # "nil" /\ share = "true")
    \/ (console # "nil" /\ console = "true")

\* Line 389: a call of SendDeletedDecisions that has just been entered, with
\* its copy of the slice and its loop variable `start`.
NewFlight(c) == [cache |-> c, start |-> 0, state |-> "running"]

\* The identifiers from..to, in order.
Identifiers(from, to) == [i \in 1..(to - from + 1) |-> from + i - 1]

\* Mutant of SendDeletedDecisionsBatch: a failing call is logged and the loop
\* goes on with the next chunk.
SendDeletedDecisionsBatchGoesOn ==
    /\ \E f \in 1..Len(flights) :
        LET fl == flights[f]
            end == min(fl.start + batchSize, Len(fl.cache))
        IN
        /\ fl.state = "running"
        /\ fl.start < Len(fl.cache)
        /\ \E ok \in BOOLEAN :
            /\ outbound' = Append(outbound,
                                  [flight |-> f,
                                   decisions |-> SubSeq(fl.cache, fl.start + 1, end),
                                   ok |-> ok])
            /\ flights' = [flights EXCEPT ![f].start = fl.start + batchSize]
    /\ UNCHANGED <<ShareManualDecisions, ConsoleManagement, spc, cache, dying,
                   nextDecision, parseVars, dumpVars, nodeVars, papiVars>>

\* Mutant of SendDeletedDecisionsBatch: a failed call is tried again with the
\* same chunk.
SendDeletedDecisionsBatchRetries ==
    /\ \E f \in 1..Len(flights) :
        LET fl == flights[f]
            end == min(fl.start + batchSize, Len(fl.cache))
        IN
        /\ fl.state = "running"
        /\ fl.start < Len(fl.cache)
        /\ Len(outbound) < 2 * MaxDeleted
        /\ \E ok \in BOOLEAN :
            /\ outbound' = Append(outbound,
                                  [flight |-> f,
                                   decisions |-> SubSeq(fl.cache, fl.start + 1, end),
                                   ok |-> ok])
            /\ flights' = [flights EXCEPT ![f] =
                               IF ok THEN [fl EXCEPT !.start = fl.start + batchSize]
                               ELSE fl]
    /\ UNCHANGED <<ShareManualDecisions, ConsoleManagement, spc, cache, dying,
                   nextDecision, parseVars, dumpVars, nodeVars, papiVars>>

\* Lines 393-399 and 376-386: one iteration of the loop of one running call
\* of SendDeletedDecisions; the outbound call carries cache[start:end] and
\* may fail, which ends the call.
SendDeletedDecisionsBatch ==
    /\ \E f \in 1..Len(flights) :
        LET fl == flights[f]
            end == min(fl.start + batchSize, Len(fl.cache))
        IN
        /\ fl.state = "running"
        /\ fl.start < Len(fl.cache)
        /\ \E ok \in BOOLEAN :
            /\ outbound' = Append(outbound,
                                  [flight |-> f,
                                   decisions |-> SubSeq(fl.cache, fl.start + 1, end),
                                   ok |-> ok])
            /\ flights' = [flights EXCEPT ![f] =
                               IF ok THEN [fl EXCEPT !.start = fl.start + batchSize]
                               ELSE [fl EXCEPT !.state = "failed"]]
    /\ UNCHANGED <<ShareManualDecisions, ConsoleManagement, spc, cache, dying,
                   nextDecision, parseVars, dumpVars, nodeVars, papiVars>>

\* Lines 393 and 401: the loop condition fails and the call returns.
SendDeletedDecisionsReturn ==
    /\ \E f \in 1..Len(flights) :
        /\ flights[f].state = "running"
        /\ flights[f].start >= Len(flights[f].cache)
        /\ flights' = [flights EXCEPT ![f].state = "done"]
    /\ UNCHANGED <<ShareManualDecisions, ConsoleManagement, spc, cache, dying,
                   nextDecision, outbound, parseVars, dumpVars, nodeVars, papiVars>>

\* One call of SendDeletedDecisions on a slice of 0..MaxSend identifiers.
InitSend ==
    /\ ShareManualDecisions = "nil"
    /\ ConsoleManagement = "nil"
    /\ spc = "idle"
    /\ cache = <<>>
    /\ dying = FALSE
    /\ nextDecision = 0
    /\ \E n \in 0..MaxSend : flights = <<NewFlight(Identifiers(1, n))>>
    /\ outbound = <<>>

InitSpecSend == InitSend /\ PapiIdle /\ ParseIdle /\ StaticsIdle /\ WlIdle

NextSend ==
    \/ SendDeletedDecisionsBatch
    \/ SendDeletedDecisionsReturn

SpecSend == InitSpecSend /\ [][NextSend]_vars

\* Lines 328-336: SyncDecisions has entered its loop with an empty cache.
InitSync ==
    /\ ShareManualDecisions \in PolicyValues
    /\ ConsoleManagement \in PolicyValues
    /\ spc = "loop"
    /\ cache = <<>>
    /\ dying = FALSE
    /\ nextDecision = 0
    /\ flights = <<>>
    /\ outbound = <<>>

\* Line 405: syncTomb.Kill, as Shutdown calls it.
SyncTombKill ==
    /\ ~dying
    /\ dying' = TRUE
    /\ UNCHANGED <<ShareManualDecisions, ConsoleManagement, spc, cache,
                   nextDecision, flights, outbound, parseVars, dumpVars, nodeVars, papiVars>>

\* Mutant of SyncDecisionsDying: the loop returns without sending the cache.
SyncDecisionsDyingDropsCache ==
    /\ spc = "loop"
    /\ dying
    /\ spc' = "returned"
    /\ UNCHANGED <<ShareManualDecisions, ConsoleManagement, cache, dying,
                   nextDecision, flights, outbound, parseVars, dumpVars, nodeVars, papiVars>>

\* Lines 338-347: the case of syncTomb.Dying().
SyncDecisionsDying ==
    /\ spc = "loop"
    /\ dying
    /\ IF Len(cache) = 0
       THEN UNCHANGED flights
       ELSE flights' = Append(flights, NewFlight(cache))
    /\ spc' = "returned"
    /\ UNCHANGED <<ShareManualDecisions, ConsoleManagement, cache, dying,
                   nextDecision, outbound, parseVars, dumpVars, nodeVars, papiVars>>

\* Mutant of SyncDecisionsTick: the cache is emptied and no transmission is
\* started.
SyncDecisionsTickDropsCache ==
    /\ spc = "loop"
    /\ IF Len(cache) > 0
       THEN cache' = <<>>
       ELSE UNCHANGED cache
    /\ UNCHANGED <<ShareManualDecisions, ConsoleManagement, spc, dying, flights,
                   nextDecision, outbound, parseVars, dumpVars, nodeVars, papiVars>>

\* Mutant of SyncDecisionsTick: the cache is not replaced after the copy.
SyncDecisionsTickKeepsCache ==
    /\ spc = "loop"
    /\ IF Len(cache) > 0
       THEN flights' = Append(flights, NewFlight(cache))
       ELSE UNCHANGED flights
    /\ UNCHANGED <<ShareManualDecisions, ConsoleManagement, spc, cache, dying,
                   nextDecision, outbound, parseVars, dumpVars, nodeVars, papiVars>>

\* Lines 348-357: the case of the ticker.
SyncDecisionsTick ==
    /\ spc = "loop"
    /\ IF Len(cache) > 0
       THEN /\ flights' = Append(flights, NewFlight(cache))
            /\ cache' = <<>>
       ELSE UNCHANGED <<flights, cache>>
    /\ UNCHANGED <<ShareManualDecisions, ConsoleManagement, spc, dying,
                   nextDecision, outbound, parseVars, dumpVars, nodeVars, papiVars>>

\* Mutant of SyncDecisionsReceive: the decisions are kept whatever the
\* console configuration says.
SyncDecisionsReceiveAlwaysKeeps ==
    /\ spc = "loop"
    /\ \E n \in 0..(MaxDeleted - nextDecision) :
        LET deletedDecisions == Identifiers(nextDecision + 1, nextDecision + n) IN
        /\ nextDecision' = nextDecision + n
        /\ cache' = cache \o deletedDecisions
    /\ UNCHANGED <<ShareManualDecisions, ConsoleManagement, spc, dying, flights,
                   outbound, parseVars, dumpVars, nodeVars, papiVars>>

\* Lines 358-371: the case of DeleteDecisionChannel; the decisions carry the
\* identifiers nextDecision+1, nextDecision+2, ...
SyncDecisionsReceive ==
    /\ spc = "loop"
    /\ \E n \in 0..(MaxDeleted - nextDecision) :
        LET deletedDecisions == Identifiers(nextDecision + 1, nextDecision + n) IN
        /\ nextDecision' = nextDecision + n
        /\ IF SharingEnabled(ShareManualDecisions, ConsoleManagement)
           THEN cache' = cache \o deletedDecisions
           ELSE UNCHANGED cache
    /\ UNCHANGED <<ShareManualDecisions, ConsoleManagement, spc, dying, flights,
                   outbound, parseVars, dumpVars, nodeVars, papiVars>>

InitSpecSync == InitSync /\ PapiIdle /\ ParseIdle /\ StaticsIdle /\ WlIdle

NextSync ==
    \/ SyncTombKill
    \/ SyncDecisionsDying
    \/ SyncDecisionsTick
    \/ SyncDecisionsReceive
    \/ SendDeletedDecisionsBatch
    \/ SendDeletedDecisionsReturn

SpecSync == InitSpecSync /\ [][NextSync]_vars

\* The select of SyncDecisions picks among its ready cases at random: the
\* case of syncTomb.Dying(), ready for good once the tomb is killed, is
\* taken in the end.
SpecSyncLive == SpecSync /\ WF_vars(SyncDecisionsDying)

\* The ticker of line 333 keeps ticking, and a tick that waits on ticker.C
\* is taken by the select in the end, as is the case of syncTomb.Dying().
SpecSyncFair ==
    SpecSync /\ WF_vars(SyncDecisionsTick) /\ WF_vars(SyncDecisionsDying)

(***************************************************************************)
(* parser.Node.ProcessStatics and parser.SetTargetByName.                  *)
(*                                                                         *)
(* ProcessStatics applies a list of static directives to one event.  The   *)
(* list is an input: the model hands ProcessStatics its directives one at  *)
(* a time, nStatics of them, each drawn from Directives when the loop      *)
(* reaches it.  What an expression evaluates to and what an enrichment     *)
(* function returns are inputs too (exprhelpers.Run and the registered     *)
(* functions are outside this source).                                     *)
(***************************************************************************)

\* A key a map of the event does not hold.
Absent == "<absent>"

\* The keys the maps of the event are looked at.
MapKeys == {"k", "a", "MarshaledTime"}

\* types.MakeEvent (pkg/types/event.go, lines 50-65): the maps are made and
\* empty; the other fields are the ones of a log line that entered a stage.
MakeEvent ==
    [Stage |-> "s00",
     Process |-> TRUE,
     Parsed |-> [k \in MapKeys |-> Absent],
     Meta |-> [k \in MapKeys |-> Absent],
     Enriched |-> [k \in MapKeys |-> Absent],
     Overflow |-> [Mapkey |-> "", Alert |-> Nil]]

\* reflect.Kind of the locations of types.Event (pkg/types/event.go, lines
\* 21-48 and 162-171) that the targets of the model walk through.  A
\* location is the sequence of field names that leads to it.
KindOf(loc) ==
    CASE loc = <<>> -> "struct"
      [] loc = <<"Stage">> -> "string"
      [] loc = <<"Process">> -> "bool"
      [] loc \in {<<"Parsed">>, <<"Meta">>, <<"Enriched">>} -> "map"
      [] loc = <<"Overflow">> -> "struct"
      [] loc = <<"Overflow", "Mapkey">> -> "string"
      [] loc = <<"Overflow", "Alert">> -> "ptr"
      [] loc = <<"Overflow", "Sources">> -> "map"
      [] OTHER -> "invalid"

\* reflect.Value.FieldByName(f).IsValid() on the struct at loc.
FieldIsValid(loc, f) == KindOf(Append(loc, f)) # "invalid"

\* Line 444: strings.TrimPrefix(target, "evt."), on a target split at its
\* dots.  One leading "evt" goes, and only when something follows it.
TrimPrefix(target) ==
    IF Len(target) > 1 /\ target[1] = "evt" THEN Tail(target) ELSE target

\* Whether the map at loc takes a string for a value.  Parsed, Meta and
\* Enriched are maps of strings; Overflow.Sources is a map of models.Source
\* (pkg/types/event.go, line 166), and SetMapIndex panics on a value its
\* element type cannot be assigned.
MapTakesString(loc) == loc \in {<<"Parsed">>, <<"Meta">>, <<"Enriched">>}

\* iter.SetMapIndex(f, value), line 473, and iter.Set(value), line 508.
SetAt(e, loc, f, val) ==
    CASE loc = <<"Parsed">> -> [e EXCEPT !.Parsed[f] = val]
      [] loc = <<"Meta">> -> [e EXCEPT !.Meta[f] = val]
      [] loc = <<"Enriched">> -> [e EXCEPT !.Enriched[f] = val]
      [] loc = <<"Stage">> -> [e EXCEPT !.Stage = val]
      [] loc = <<"Overflow", "Mapkey">> -> [e EXCEPT !.Overflow.Mapkey = val]
      [] OTHER -> e

\* Mutant of Walk: the walk goes on below a map, where nothing is found,
\* when segments are left after the key.
RECURSIVE WalkBelowMaps(_, _, _, _)
WalkBelowMaps(loc, segs, val, e) ==
    IF segs = <<>>
    THEN IF KindOf(loc) \in {"ptr", "invalid"} THEN [ok |-> FALSE, evt |-> e]
         ELSE IF KindOf(loc) # "string" THEN [ok |-> FALSE, evt |-> e]
         ELSE [ok |-> TRUE, evt |-> SetAt(e, loc, "", val)]
    ELSE CASE KindOf(loc) = "map" ->
                IF Len(segs) > 1 \/ ~MapTakesString(loc) THEN [ok |-> FALSE, evt |-> e]
                ELSE [ok |-> TRUE, evt |-> SetAt(e, loc, Head(segs), val)]
           [] KindOf(loc) = "struct" ->
                IF ~FieldIsValid(loc, Head(segs)) THEN [ok |-> FALSE, evt |-> e]
                ELSE WalkBelowMaps(Append(loc, Head(segs)), Tail(segs), val, e)
           [] OTHER -> [ok |-> FALSE, evt |-> e]

\* Lines 461-510: the walk of SetTargetByName from the location loc along
\* the segments segs.  A nil pointer is left by reflect.Indirect as the zero
\* Value, whose kind is Invalid and which cannot be set.  The panic of
\* SetMapIndex is recovered by the deferred function of lines 448-453, and
\* SetTargetByName then returns false, the zero value of its result.
RECURSIVE Walk(_, _, _, _)
Walk(loc, segs, val, e) ==
    IF segs = <<>>
    THEN IF KindOf(loc) \in {"ptr", "invalid"} THEN [ok |-> FALSE, evt |-> e]
         ELSE IF KindOf(loc) # "string" THEN [ok |-> FALSE, evt |-> e]
         ELSE [ok |-> TRUE, evt |-> SetAt(e, loc, "", val)]
    ELSE CASE KindOf(loc) = "map" ->
                IF ~MapTakesString(loc) THEN [ok |-> FALSE, evt |-> e]
                ELSE [ok |-> TRUE, evt |-> SetAt(e, loc, Head(segs), val)]
           [] KindOf(loc) = "struct" ->
                IF ~FieldIsValid(loc, Head(segs)) THEN [ok |-> FALSE, evt |-> e]
                ELSE Walk(Append(loc, Head(segs)), Tail(segs), val, e)
           [] OTHER -> [ok |-> FALSE, evt |-> e]

\* Mutant of SetTargetByName: the walk is made but success is always
\* reported.
SetTargetByNameReportsSuccess(target, val, e) ==
    [ok |-> TRUE, evt |-> Walk(<<>>, TrimPrefix(target), val, e).evt]

\* Lines 438-511.  The result is what SetTargetByName returns and the event
\* it leaves.
SetTargetByName(target, val, e) == Walk(<<>>, TrimPrefix(target), val, e)

\* A directive without an expression (static.RunTimeValue == nil).
NoExpr == [kind |-> "none", str |-> "", num |-> 0]

\* What exprhelpers.Run gives for the expression of a directive, line 542:
\* an error, or an output of one of the types the switch of lines 548-564
\* tells apart ("bool" stands for the types of its default case).  A float
\* is carried as its literal.
ExprOutcomes ==
    {[kind |-> "error", str |-> "", num |-> 0],
     [kind |-> "string", str |-> "s", num |-> 0],
     [kind |-> "string", str |-> "", num |-> 0],
     [kind |-> "int", str |-> "", num |-> 0],
     [kind |-> "float", str |-> "1.5", num |-> 0],
     [kind |-> "map", str |-> "", num |-> 0],
     [kind |-> "array", str |-> "", num |-> 0],
     [kind |-> "nil", str |-> "", num |-> 0],
     [kind |-> "bool", str |-> "", num |-> 0]}

\* strconv.Itoa, line 552, on the integers of ExprOutcomes.
Itoa(n) == CASE n = 0 -> "0" [] n = 7 -> "7" [] OTHER -> "?"

\* fmt.Sprintf("%f", out), line 554, on the floats of ExprOutcomes.
Sprintf(f) == CASE f = "1.5" -> "1.500000" [] f = "0" -> "0.000000" [] OTHER -> "?"

\* How a directive's value comes: static.Value and static.RunTimeValue.
Sources ==
    {[Value |-> "v", RunTimeValue |-> NoExpr],
     [Value |-> "v", RunTimeValue |-> [kind |-> "bool", str |-> "", num |-> 0]]}
    \cup {[Value |-> "", RunTimeValue |-> r] : r \in {NoExpr} \cup ExprOutcomes}

\* n.EnrichFunctions.Registered: the names that have an enrichment function.
Registered == {"ParseDate", "GeoIpCity"}

\* The dotted paths of the model, split at their dots.
TargetPaths ==
    {<<"evt", "Stage">>, <<"Overflow", "Mapkey">>, <<"Meta", "a", "b">>,
     <<"Nope">>, <<"Process">>, <<"Stage", "x">>, <<"Overflow", "Alert">>,
     <<"Overflow", "Sources", "x">>, <<"evt", "Meta", "a">>}

\* Where a directive's value goes: static.Method, static.Parsed,
\* static.Meta, static.Enriched and static.TargetByName ("" and <<>> when
\* not populated).  One kind populated, none, or several at once.
NoTarget ==
    [Method |-> "", Parsed |-> "", Meta |-> "", Enriched |-> "", TargetByName |-> <<>>]

Targets ==
    {NoTarget}
    \cup {[NoTarget EXCEPT !.Method = m] : m \in {"ParseDate", "GeoIpCity", "NoSuchMethod"}}
    \cup {[NoTarget EXCEPT !.Parsed = "k"], [NoTarget EXCEPT !.Meta = "k"],
          [NoTarget EXCEPT !.Enriched = "k"]}
    \cup {[NoTarget EXCEPT !.TargetByName = t] : t \in TargetPaths}

\* Directives with several kinds of target populated at once.
SeveralTargets ==
         {[Method |-> "GeoIpCity", Parsed |-> "k", Meta |-> "k", Enriched |-> "k",
           TargetByName |-> <<"evt", "Stage">>],
          [Method |-> "", Parsed |-> "k", Meta |-> "k", Enriched |-> "k",
           TargetByName |-> <<"evt", "Stage">>],
          [Method |-> "", Parsed |-> "", Meta |-> "k", Enriched |-> "k",
           TargetByName |-> <<"evt", "Stage">>],
          [Method |-> "", Parsed |-> "", Meta |-> "", Enriched |-> "k",
           TargetByName |-> <<"evt", "Stage">>]}

\* ExtraField with its value and its target.
ExtraField(s, t) ==
    [Value |-> s.Value, RunTimeValue |-> s.RunTimeValue, Method |-> t.Method,
     Parsed |-> t.Parsed, Meta |-> t.Meta, Enriched |-> t.Enriched,
     TargetByName |-> t.TargetByName]

\* The directives ProcessStatics may be given: every source of value with
\* every single target, and the directives of several targets with a
\* static value.
Directives ==
    {ExtraField(s, t) : s \in Sources, t \in Targets}
    \cup {ExtraField([Value |-> "v", RunTimeValue |-> NoExpr], t) : t \in SeveralTargets}

\* What enricherPlugin.EnrichFunc returns, line 580: the entries of ret, as
\* a set of <<key, value>>, and whether err is non-nil.
EnrichReturns ==
    [ret : {{}, {<<"MarshaledTime", "t0">>}}, err : BOOLEAN]

\* The returns to tell apart for the directive d: those of EnrichFunc when
\* the iteration calls it, and nothing to choose when it does not.
EnrichChoices(d, r) ==
    IF r.next = "go" /\ ~(r.value = "" /\ d.Method # "ParseDate") /\ d.Method \in Registered
    THEN EnrichReturns
    ELSE {[ret |-> {}, err |-> FALSE]}

\* Mutant of Resolve: an output of an unexpected type is logged and the
\* directive skipped, as for a map.
ResolveSkipsUnexpected(d) ==
    IF d.Value # "" THEN [next |-> "go", value |-> d.Value]
    ELSE IF d.RunTimeValue = NoExpr THEN [next |-> "go", value |-> ""]
    ELSE LET out == d.RunTimeValue IN
         CASE out.kind = "error" -> [next |-> "continue", value |-> ""]
           [] out.kind = "string" -> [next |-> "go", value |-> out.str]
           [] out.kind = "int" -> [next |-> "go", value |-> Itoa(out.num)]
           [] out.kind = "float" -> [next |-> "go", value |-> Sprintf(out.str)]
           [] OTHER -> [next |-> "go", value |-> ""]

\* Lines 538-565: the value of the directive.  next tells how the iteration
\* goes on: "go" to line 567, "continue" with the next directive (line
\* 545), "return" out of ProcessStatics with an error (line 563).
Resolve(d) ==
    IF d.Value # "" THEN [next |-> "go", value |-> d.Value]
    ELSE IF d.RunTimeValue = NoExpr THEN [next |-> "go", value |-> ""]
    ELSE LET out == d.RunTimeValue IN
         CASE out.kind = "error" -> [next |-> "continue", value |-> ""]
           [] out.kind = "string" -> [next |-> "go", value |-> out.str]
           [] out.kind = "int" -> [next |-> "go", value |-> Itoa(out.num)]
           [] out.kind = "float" -> [next |-> "go", value |-> Sprintf(out.str)]
           [] out.kind \in {"map", "array", "nil"} -> [next |-> "go", value |-> ""]
           [] OTHER -> [next |-> "return", value |-> ""]

\* Mutant of SkipsEmpty: an empty value skips the directive whatever its
\* method.
SkipsEmptyAlways(d, val) == val = ""

\* Lines 567-573: the directive is skipped for its empty value.
SkipsEmpty(d, val) == val = "" /\ d.Method # "ParseDate"

\* Lines 590-593: the entries of ret go into event.Enriched.
Inject(e, ret) ==
    [e EXCEPT !.Enriched =
        [k \in MapKeys |->
            IF \E p \in ret : p[1] = k
            THEN (CHOOSE p \in ret : p[1] = k)[2]
            ELSE e.Enriched[k]]]

\* Mutant of Dispatch: .Meta[key] is looked at before .Parsed[key].
DispatchMetaFirst(d, val, e, enr) ==
    IF d.Method # ""
    THEN IF d.Method \in Registered
         THEN [evt |-> Inject(e, enr.ret), how |-> "method", call |-> TRUE, fatal |-> FALSE]
         ELSE [evt |-> e, how |-> "nomethod", call |-> FALSE, fatal |-> FALSE]
    ELSE IF d.Meta # ""
    THEN [evt |-> [e EXCEPT !.Meta[d.Meta] = val], how |-> "meta",
          call |-> FALSE, fatal |-> FALSE]
    ELSE IF d.Parsed # ""
    THEN [evt |-> [e EXCEPT !.Parsed[d.Parsed] = val], how |-> "parsed",
          call |-> FALSE, fatal |-> FALSE]
    ELSE IF d.Enriched # ""
    THEN [evt |-> [e EXCEPT !.Enriched[d.Enriched] = val], how |-> "enriched",
          call |-> FALSE, fatal |-> FALSE]
    ELSE IF d.TargetByName # <<>>
    THEN LET r == SetTargetByName(d.TargetByName, val, e) IN
         [evt |-> r.evt, how |-> IF r.ok THEN "target" ELSE "notarget",
          call |-> FALSE, fatal |-> FALSE]
    ELSE [evt |-> e, how |-> "fatal", call |-> FALSE, fatal |-> TRUE]

\* Mutant of Dispatch: a directive without a target is passed over.
DispatchPassesUntargeted(d, val, e, enr) ==
    IF d.Method # ""
    THEN IF d.Method \in Registered
         THEN [evt |-> Inject(e, enr.ret), how |-> "method", call |-> TRUE, fatal |-> FALSE]
         ELSE [evt |-> e, how |-> "nomethod", call |-> FALSE, fatal |-> FALSE]
    ELSE IF d.Parsed # ""
    THEN [evt |-> [e EXCEPT !.Parsed[d.Parsed] = val], how |-> "parsed",
          call |-> FALSE, fatal |-> FALSE]
    ELSE IF d.Meta # ""
    THEN [evt |-> [e EXCEPT !.Meta[d.Meta] = val], how |-> "meta",
          call |-> FALSE, fatal |-> FALSE]
    ELSE IF d.Enriched # ""
    THEN [evt |-> [e EXCEPT !.Enriched[d.Enriched] = val], how |-> "enriched",
          call |-> FALSE, fatal |-> FALSE]
    ELSE IF d.TargetByName # <<>>
    THEN LET r == SetTargetByName(d.TargetByName, val, e) IN
         [evt |-> r.evt, how |-> IF r.ok THEN "target" ELSE "notarget",
          call |-> FALSE, fatal |-> FALSE]
    ELSE [evt |-> e, how |-> "empty", call |-> FALSE, fatal |-> FALSE]

\* Lines 575-618: the value goes to the one target the else-if chain picks.
\* how names the branch taken, call whether the enrichment function ran,
\* fatal whether clog.Fatal ended the process.
Dispatch(d, val, e, enr) ==
    IF d.Method # ""
    THEN IF d.Method \in Registered
         THEN [evt |-> Inject(e, enr.ret), how |-> "method", call |-> TRUE, fatal |-> FALSE]
         ELSE [evt |-> e, how |-> "nomethod", call |-> FALSE, fatal |-> FALSE]
    ELSE IF d.Parsed # ""
    THEN [evt |-> [e EXCEPT !.Parsed[d.Parsed] = val], how |-> "parsed",
          call |-> FALSE, fatal |-> FALSE]
    ELSE IF d.Meta # ""
    THEN [evt |-> [e EXCEPT !.Meta[d.Meta] = val], how |-> "meta",
          call |-> FALSE, fatal |-> FALSE]
    ELSE IF d.Enriched # ""
    THEN [evt |-> [e EXCEPT !.Enriched[d.Enriched] = val], how |-> "enriched",
          call |-> FALSE, fatal |-> FALSE]
    ELSE IF d.TargetByName # <<>>
    THEN LET r == SetTargetByName(d.TargetByName, val, e) IN
         [evt |-> r.evt, how |-> IF r.ok THEN "target" ELSE "notarget",
          call |-> FALSE, fatal |-> FALSE]
    ELSE [evt |-> e, how |-> "fatal", call |-> FALSE, fatal |-> TRUE]

\* No directive was looked at yet.
NoStatic ==
    [Value |-> "", RunTimeValue |-> NoExpr, Method |-> "", Parsed |-> "", Meta |-> "",
     Enriched |-> "", TargetByName |-> <<>>]

\* ProcessStatics is called on a fresh event with a list of nStatics
\* directives.
InitStatics ==
    /\ nStatics \in 0..MaxStatics
    /\ evt = MakeEvent
    /\ static = NoStatic
    /\ value = ""
    /\ outcome = "none"
    /\ prevOutcome = "none"
    /\ called = FALSE
    /\ stidx = 0
    /\ stpc = "loop"
    /\ sterr = Nil

\* Lines 537-619: one iteration of the loop, on the directive the list
\* holds at this position.
ProcessStaticsStep ==
    /\ stpc = "loop"
    /\ stidx < nStatics
    /\ \E d \in Directives : \E enr \in EnrichChoices(d, Resolve(d)) :
        LET r == Resolve(d)
            t == Dispatch(d, r.value, evt, enr)
        IN  /\ static' = d
            /\ value' = r.value
            /\ CASE r.next = "continue" ->
                      /\ outcome' = "exprfail"
                      /\ UNCHANGED <<evt, sterr>>
                      /\ called' = FALSE
                      /\ stpc' = "loop"
                 [] r.next = "return" ->
                      /\ outcome' = "badtype"
                      /\ sterr' = "unexpected return type for RunTimeValue"
                      /\ UNCHANGED evt
                      /\ called' = FALSE
                      /\ stpc' = "returned"
                 [] r.next = "go" /\ SkipsEmpty(d, r.value) ->
                      /\ outcome' = "empty"
                      /\ UNCHANGED <<evt, sterr>>
                      /\ called' = FALSE
                      /\ stpc' = "loop"
                 [] OTHER ->
                      /\ outcome' = t.how
                      /\ evt' = t.evt
                      /\ called' = t.call
                      /\ stpc' = IF t.fatal THEN "fatal" ELSE "loop"
                      /\ UNCHANGED sterr
    /\ prevOutcome' = outcome
    /\ stidx' = stidx + 1
    /\ UNCHANGED nStatics
    /\ UNCHANGED <<parseVars, dumpVars, papiVars, syncVars, wlVars>>

\* Line 621: the list is exhausted, ProcessStatics returns nil.
ProcessStaticsReturn ==
    /\ stpc = "loop"
    /\ stidx = nStatics
    /\ stpc' = "returned"
    /\ UNCHANGED <<evt, static, value, outcome, prevOutcome, called, stidx, nStatics, sterr>>
    /\ UNCHANGED <<parseVars, dumpVars, papiVars, syncVars, wlVars>>

InitSpecStatics == InitStatics /\ ParseIdle /\ PapiIdle /\ SyncIdle /\ WlIdle

NextStatics ==
    \/ ProcessStaticsStep
    \/ ProcessStaticsReturn

\* One call of ProcessStatics.
SpecStatics == InitSpecStatics /\ [][NextStatics]_vars

(***************************************************************************)
(* parser.Node.CheckIPsWL and types.Event.ParseIPSources.                  *)
(*                                                                         *)
(* An address is the sequence of its four octets (IPv4 only); a prefix is  *)
(* an address and a number of bits.  n.Whitelist holds the compiled forms  *)
(* CompileWLs leaves in B_Ips and B_Cidrs.                                 *)
(***************************************************************************)

\* Event.Type (pkg/types/event.go, lines 14-18).
LOG == 0
OVFLW == 1
APPSEC == 2

\* The texts a source of the event may hold.
SourceTexts == {"10.1.2.3", "10.0.0.0", "11.0.0.1", "bogus"}

\* netip.ParseAddr on the texts of the model: the address, and whether the
\* text is one.
ParseAddr(text) ==
    CASE text = "10.1.2.3" -> [ok |-> TRUE, addr |-> <<10, 1, 2, 3>>]
      [] text = "10.0.0.0" -> [ok |-> TRUE, addr |-> <<10, 0, 0, 0>>]
      [] text = "11.0.0.1" -> [ok |-> TRUE, addr |-> <<11, 0, 0, 1>>]
      [] OTHER -> [ok |-> FALSE, addr |-> <<>>]

\* The addresses and the prefixes a whitelist of the model may hold.
ConfiguredIps == {<<10, 1, 2, 3>>, <<10, 0, 0, 0>>, <<11, 0, 0, 1>>}
ConfiguredCidrs ==
    {[addr |-> <<10, 0, 0, 0>>, bits |-> 8],
     [addr |-> <<10, 1, 2, 0>>, bits |-> 24],
     [addr |-> <<11, 0, 0, 1>>, bits |-> 32]}

\* The sequences that hold every element of the set S once: the orders in
\* which a range over a Go map may give its keys.
Orders(S) ==
    {o \in [1..Cardinality(S) -> S] : \A i, j \in DOMAIN o : o[i] = o[j] => i = j}

\* The 32 bits of an address, as a number.
AsUint32(a) == ((a[1] * 256 + a[2]) * 256 + a[3]) * 256 + a[4]

\* 2 to the power n.
RECURSIVE Pow2(_)
Pow2(n) == IF n = 0 THEN 1 ELSE 2 * Pow2(n - 1)

\* Mutant of Contains: the address has to be the one of the prefix.
ContainsOnlyItsAddress(v, src) == AsUint32(src) = AsUint32(v.addr)

\* netip.Prefix.Contains, line 829: the leading bits of the address are
\* those of the prefix.
Contains(v, src) ==
    AsUint32(src) \div Pow2(32 - v.bits) = AsUint32(v.addr) \div Pow2(32 - v.bits)

\* Event.ParseIPSources (pkg/types/event.go, lines 120-143), with the keys
\* of Overflow.Sources ranged over in the order keys.
RECURSIVE ParseKeys(_)
ParseKeys(keys) ==
    IF keys = <<>> THEN <<>>
    ELSE IF ParseAddr(Head(keys)).ok
         THEN <<ParseAddr(Head(keys)).addr>> \o ParseKeys(Tail(keys))
         ELSE ParseKeys(Tail(keys))

ParseIPSources(p, keys) ==
    CASE p.Type = LOG ->
            IF p.Meta # Absent /\ ParseAddr(p.Meta).ok
            THEN <<ParseAddr(p.Meta).addr>>
            ELSE <<>>
      [] p.Type = OVFLW -> ParseKeys(keys)
      [] OTHER -> <<>>

\* Lines 804-806.
ContainsIPLists(n) == Len(n.B_Ips) > 0 \/ Len(n.B_Cidrs) > 0

\* Lines 820-827: the loop over B_Ips for one source.
RECURSIVE IpLoop(_, _)
IpLoop(ips, src) ==
    IF ips = <<>> THEN FALSE
    ELSE IF Head(ips) = src THEN TRUE
    ELSE IpLoop(Tail(ips), src)

\* Lines 828-835: the loop over B_Cidrs for one source.
RECURSIVE CidrLoop(_, _)
CidrLoop(cidrs, src) ==
    IF cidrs = <<>> THEN FALSE
    ELSE IF Contains(Head(cidrs), src) THEN TRUE
    ELSE CidrLoop(Tail(cidrs), src)

\* Lines 816-836: the loop over the sources, left at the first source that
\* is whitelisted.
RECURSIVE SrcLoop(_, _, _)
SrcLoop(n, srcs, wl) ==
    IF srcs = <<>> \/ wl THEN wl
    ELSE SrcLoop(n, Tail(srcs),
                 wl \/ IpLoop(n.B_Ips, Head(srcs)) \/ CidrLoop(n.B_Cidrs, Head(srcs)))

\* Lines 808-842: what CheckIPsWL returns.
CheckIPsWL(n, p, keys) ==
    IF ~ContainsIPLists(n) THEN FALSE
    ELSE SrcLoop(n, ParseIPSources(p, keys), FALSE)

\* The events handed to the checks: the type, Meta["source_ip"] (Absent
\* when the key is not there) and the keys of Overflow.Sources.
WlEvents ==
    [Type : {LOG, OVFLW, APPSEC},
     Meta : SourceTexts \cup {Absent},
     Sources : SUBSET {"10.1.2.3", "11.0.0.1", "bogus"}]

\* The expression check while only the address check is looked at.
ExprIdle ==
    /\ epc = "idle"
    /\ eidx = 0
    /\ isWhitelisted = FALSE
    /\ exprResult = [ok |-> FALSE, err |-> Nil]
    /\ evaluated = <<>>

\* CheckIPsWL is called with a compiled whitelist on an event.
InitIPsWL ==
    /\ Whitelist \in [B_Ips : SeqsUpTo(ConfiguredIps, MaxIps),
                      B_Cidrs : SeqsUpTo(ConfiguredCidrs, MaxIps),
                      B_Exprs : {<<>>}]
    /\ wlEvent \in WlEvents
    /\ ippc = "called"
    /\ ipResult = FALSE

\* Lines 808-842: the call runs to its return.
CheckIPsWLCall ==
    /\ ippc = "called"
    /\ \E keys \in Orders(wlEvent.Sources) :
        ipResult' = CheckIPsWL(Whitelist, wlEvent, keys)
    /\ ippc' = "returned"
    /\ UNCHANGED <<Whitelist, wlEvent, epc, eidx, isWhitelisted, exprResult, evaluated>>
    /\ UNCHANGED <<parseVars, dumpVars, papiVars, syncVars, staticsVars>>

InitSpecIPsWL == InitIPsWL /\ ExprIdle /\ ParseIdle /\ PapiIdle /\ SyncIdle /\ StaticsIdle

NextIPsWL ==
    \/ CheckIPsWLCall

\* One call of CheckIPsWL.
SpecIPsWL == InitSpecIPsWL /\ [][NextIPsWL]_vars

(***************************************************************************)
(* parser.Node.CheckExprWL.                                                *)
(*                                                                         *)
(* The environment does not change during a call, so what exprhelpers.Run  *)
(* gives for a compiled expression is fixed when the call starts: an       *)
(* element of B_Exprs is that outcome.                                     *)
(***************************************************************************)

\* What running a whitelist expression gives, line 859: an error, a
\* boolean, or an output of another type.
RunOutcomes == {"true", "false", "string", "error"}

\* Mutant of EvalExpr: a value that is not a boolean counts as a match.
EvalExprAnyValueMatches(out, wl) ==
    CASE out = "error" -> [next |-> "return", wl |-> wl, err |-> "failed to run whitelist expr"]
      [] out = "true" -> [next |-> "go", wl |-> TRUE, err |-> Nil]
      [] out = "false" -> [next |-> "go", wl |-> wl, err |-> Nil]
      [] OTHER -> [next |-> "go", wl |-> TRUE, err |-> Nil]

\* Mutant of EvalExpr: a failing run is passed over like a value that is
\* not a boolean.
EvalExprGoesOnAfterFailure(out, wl) ==
    CASE out = "error" -> [next |-> "go", wl |-> wl, err |-> Nil]
      [] out = "true" -> [next |-> "go", wl |-> TRUE, err |-> Nil]
      [] out = "false" -> [next |-> "go", wl |-> wl, err |-> Nil]
      [] OTHER -> [next |-> "go", wl |-> wl, err |-> Nil]

\* Lines 860-873: the iteration on an expression whose run gives out, with
\* isWhitelisted at wl.  next is "return" when the function returns from
\* inside the loop.
EvalExpr(out, wl) ==
    CASE out = "error" -> [next |-> "return", wl |-> wl, err |-> "failed to run whitelist expr"]
      [] out = "true" -> [next |-> "go", wl |-> TRUE, err |-> Nil]
      [] out = "false" -> [next |-> "go", wl |-> wl, err |-> Nil]
      [] OTHER -> [next |-> "go", wl |-> wl, err |-> Nil]

\* The address check while only the expression check is looked at.
IPsIdle ==
    /\ ippc = "idle"
    /\ ipResult = FALSE

\* CheckExprWL is called with a compiled whitelist on an event.
InitExprWL ==
    /\ Whitelist \in [B_Ips : {<<>>}, B_Cidrs : {<<>>},
                      B_Exprs : SeqsUpTo(RunOutcomes, MaxExprs)]
    /\ wlEvent = [Type |-> LOG, Meta |-> Absent, Sources |-> {}]
    /\ epc = "called"
    /\ eidx = 0
    /\ isWhitelisted = FALSE
    /\ exprResult = [ok |-> FALSE, err |-> Nil]
    /\ evaluated = <<>>

\* Lines 845-849: without expressions CheckExprWL returns (false, nil).
CheckExprWLEnter ==
    /\ epc = "called"
    /\ IF Len(Whitelist.B_Exprs) > 0
       THEN epc' = "loop" /\ UNCHANGED exprResult
       ELSE epc' = "returned" /\ exprResult' = [ok |-> FALSE, err |-> Nil]
    /\ UNCHANGED <<Whitelist, wlEvent, ippc, ipResult, eidx, isWhitelisted, evaluated>>
    /\ UNCHANGED <<parseVars, dumpVars, papiVars, syncVars, staticsVars>>

\* Lines 853-874: one iteration of the loop, which runs the expression.
CheckExprWLEval ==
    /\ epc = "loop"
    /\ eidx < Len(Whitelist.B_Exprs)
    /\ ~isWhitelisted
    /\ LET r == EvalExpr(Whitelist.B_Exprs[eidx + 1], isWhitelisted) IN
        /\ evaluated' = Append(evaluated, eidx + 1)
        /\ eidx' = eidx + 1
        /\ isWhitelisted' = r.wl
        /\ IF r.next = "return"
           THEN epc' = "returned" /\ exprResult' = [ok |-> isWhitelisted, err |-> r.err]
           ELSE UNCHANGED <<epc, exprResult>>
    /\ UNCHANGED <<Whitelist, wlEvent, ippc, ipResult>>
    /\ UNCHANGED <<parseVars, dumpVars, papiVars, syncVars, staticsVars>>

\* Lines 855-857 and 875-879: the loop is left, at its end or by the break,
\* and CheckExprWL returns isWhitelisted without an error.
CheckExprWLReturn ==
    /\ epc = "loop"
    /\ eidx = Len(Whitelist.B_Exprs) \/ isWhitelisted
    /\ epc' = "returned"
    /\ exprResult' = [ok |-> isWhitelisted, err |-> Nil]
    /\ UNCHANGED <<Whitelist, wlEvent, ippc, ipResult, eidx, isWhitelisted, evaluated>>
    /\ UNCHANGED <<parseVars, dumpVars, papiVars, syncVars, staticsVars>>

InitSpecExprWL == InitExprWL /\ IPsIdle /\ ParseIdle /\ PapiIdle /\ SyncIdle /\ StaticsIdle

NextExprWL ==
    \/ CheckExprWLEnter
    \/ CheckExprWLEval
    \/ CheckExprWLReturn

\* One call of CheckExprWL.
SpecExprWL == InitSpecExprWL /\ [][NextExprWL]_vars

(***************************************************************************)
(* Claims about parser.Parse, checked under SpecParse.                     *)
(***************************************************************************)

ParseDone == ppc = "done"

\* The position of a stage name in the configured order, as stageidx gives it.
Pos(s) == stageidx(s, Stages)

\* Some node of the stage at position i was invoked in that stage and matched.
StageMatched(i) ==
    \E k \in 1..Len(calls) :
        /\ calls[k].stage = Stages[i]
        /\ nodes[calls[k].node].Stage = Stages[i]
        /\ calls[k].ret

\* The stages that ran did so in configured order.
CallsInStageOrder ==
    \A k, l \in 1..Len(calls) : k < l => Pos(calls[k].stage) <= Pos(calls[l].stage)

\* The stage at position i was examined, not skipped, and no node of it matched.
StageUnmatched(i) ==
    /\ i \in 1..Len(Stages)
    /\ i <= sidx
    /\ i \notin skipped
    /\ ~ \E k \in 1..Len(calls) : calls[k].stage = Stages[i] /\ calls[k].ret

NoNodeError == \A k \in 1..Len(calls) : calls[k].err = Nil

\* C1: after one Parse call the event's final stage is never a configured
\* stage earlier than the stage the event came in with.
C1_FinalStageNeverEarlier ==
    ParseDone => ~ (Pos(event.Stage) >= 0 /\ Pos(event.Stage) < Pos(xp.Stage))

\* C2 (as claimed): when Parse returns with Process=true, every configured
\* stage had one of its nodes invoked and matching during this call.
C2_ProcessImpliesEveryStageMatched ==
    (ParseDone /\ event.Process) =>
        \A i \in 1..Len(Stages) : StageMatched(i)

\* C2 (amended): when Parse returns with Process=true, every configured stage
\* was either skipped by the seek, the event being already ahead of it, or had
\* one of its nodes invoked and matching; the stages ran in configured order.
C2_ProcessImpliesEveryStageMatchedOrSkipped ==
    (ParseDone /\ event.Process) =>
        /\ \A i \in 1..Len(Stages) : i \in skipped \/ StageMatched(i)
        /\ CallsInStageOrder
        /\ perr = Nil

C2_Witness ==
    /\ ParseDone
    /\ event.Process
    /\ Len(Stages) = 2
    /\ skipped = {1}
    /\ StageMatched(2)

\* C3: Parse returns a non-nil error only when a node invocation returned an
\* error; when no node returned an error and a stage was examined without any
\* of its nodes matching (the event being behind it, or no node matching),
\* Parse returns nil with Process=false and no node of a later stage ran.
C3_FallingOffIsNotAnError ==
    ParseDone =>
        /\ perr # Nil => \E k \in 1..Len(calls) : calls[k].err = perr
        /\ \A i \in 1..Len(Stages) :
               (NoNodeError /\ StageUnmatched(i)) =>
                   /\ perr = Nil
                   /\ ~event.Process
                   /\ \A k \in 1..Len(calls) : Pos(calls[k].stage) <= i - 1

C3_Witness ==
    /\ ParseDone
    /\ exit = "nomatch"
    /\ sidx = 1
    /\ Len(Stages) = 2
    /\ Len(calls) >= 1
    /\ \E j \in 1..Len(nodes) : nodes[j].Stage = Stages[2]

C3_WitnessBehind ==
    /\ ParseDone
    /\ exit = "behind"
    /\ sidx = 2
    /\ Len(calls) >= 1

\* C4: a node invocation that returns an error is the last invocation of the
\* call: Parse is done, returns that same error, and the event it returns has
\* Process=false.
C4_NodeErrorStopsParse ==
    \A k \in 1..Len(calls) :
        calls[k].err # Nil =>
            /\ k = Len(calls)
            /\ ParseDone
            /\ perr = calls[k].err
            /\ ~event.Process

C4_Witness ==
    /\ ParseDone
    /\ perr = "errB"
    /\ xp.Process
    /\ Len(calls) = 2
    /\ calls[2].node < Len(nodes)

\* C5: for an event that enters Parse in the configured stage of index k, no
\* node of a stage of lower index is invoked: the stages before k are skipped
\* and the first node to run is the first node of stage k.
C5_EarlierStagesAreSkipped ==
    Pos(xp.Stage) >= 0 =>
        /\ \A c \in 1..Len(calls) : Pos(nodes[calls[c].node].Stage) >= Pos(xp.Stage)
        /\ (ParseDone /\ \E j \in 1..Len(nodes) : nodes[j].Stage = xp.Stage) =>
               /\ Len(calls) >= 1
               /\ nodes[calls[1].node].Stage = xp.Stage
               /\ \A j \in 1..(calls[1].node - 1) : nodes[j].Stage # xp.Stage

C5_Witness ==
    /\ ParseDone
    /\ Pos(xp.Stage) = 1
    /\ 1 \in skipped
    /\ Len(calls) >= 1
    /\ \E j \in 1..Len(nodes) : nodes[j].Stage = Stages[1]

\* Scenario A: stages [s00, s01], an event without stage, one node in s00 with
\* OnSuccess "next_stage" and one node in s01, both always matching.
ScenarioA ==
    /\ Stages = <<"s00", "s01">>
    /\ xp.Stage = ""
    /\ Len(nodes) = 2
    /\ nodes[1] = [Stage |-> "s00", OnSuccess |-> "next_stage"]
    /\ nodes[2].Stage = "s01"

AlwaysMatching ==
    \A k \in 1..Len(calls) :
        calls[k].ret /\ calls[k].err = Nil /\ calls[k].jump = NoJump

\* C6: in scenario A, Parse returns with final stage s01 and Process=true.
C6_ScenarioA ==
    (ScenarioA /\ AlwaysMatching /\ ParseDone) =>
        /\ event.Stage = "s01"
        /\ event.Process
        /\ perr = Nil

C6_Witness ==
    /\ ScenarioA
    /\ AlwaysMatching
    /\ ParseDone
    /\ Len(calls) = 2

(***************************************************************************)
(* Claims about Papi.PullOnce, checked under SpecPullOnce.                 *)
(***************************************************************************)

OnceDone == qpc = "once_done" /\ oerr = Nil

\* C7: PullOnce hands every event of the pulled batch to the handler exactly
\* once, in the reverse of the order of delivery, whatever the handling of
\* the events before it returned.
C7_DispatchedInReverseOrder ==
    /\ qpc \in {"once_loop", "once_done"} =>
           /\ Len(handled) <= Len(delivered)
           /\ \A i \in 1..Len(handled) :
                  /\ handled[i].RequestId = delivered[Len(delivered) + 1 - i].RequestId
                  /\ handled[i].Data = delivered[Len(delivered) + 1 - i].Data
    /\ OnceDone => Len(handled) = Len(delivered)

C7_Witness ==
    /\ OnceDone
    /\ Len(delivered) = 3
    /\ handled[1].err # Nil
    /\ handled[2].err = Nil
    /\ handled[3].err # Nil

\* C8: PullOnce never writes the stored pull time: it is at every point of
\* the call what it was on entry.
C8_CheckpointUntouched == db = dbAtEntry

C8_Witness ==
    /\ OnceDone
    /\ Len(handled) = 3
    /\ \E i \in 1..3 : handled[i].err = Nil
    /\ \E i \in 1..3 : handled[i].err # Nil
    /\ db = MarshalText(0)

(***************************************************************************)
(* Claims about Papi.Pull, checked under SpecPull.                         *)
(***************************************************************************)

InLoop == qpc \in {"select", "dispatch", "persist"}

\* A crash has just cut the dispatch of an event; Pull is about to start again.
CrashedInDispatch == qpc = "start" /\ interrupted # -1

\* C9 (as claimed): the stored time is brought up to the time of the event
\* before the event is dispatched, so that after a crash in the middle of the
\* dispatch the restart reads a time that is not before the event's.
C9_CrashInDispatchDoesNotReplay ==
    (CrashedInDispatch /\ UnmarshalText(db) # -1) => UnmarshalText(db) >= interrupted

\* C9 (amended): before the dispatch only lastTimestamp, in memory, is set to
\* the current time; the stored time is still the one from before the event,
\* during the dispatch and after a crash in the middle of it.
C9_OnlyMemoryUpdatedBeforeDispatch ==
    /\ qpc = "dispatch" =>
           /\ lastTimestamp = now
           /\ binTime = MarshalText(lastTimestamp)
           /\ db = dbAtRecv
    /\ CrashedInDispatch => db = dbAtRecv

C9_Witness ==
    /\ CrashedInDispatch
    /\ interrupted = 2
    /\ db = MarshalText(1)

\* C10: in the loop the stored time is written only after handleEvent
\* returned nil for the event, and then with the time of that event; when
\* handleEvent fails the loop goes back to its select with the stored time
\* unchanged; after the write, failed or not, the loop goes back to its select.
C10_StoredOnlyAfterSuccess ==
    [][ /\ (InLoop /\ db' # db) =>
               (qpc = "persist" /\ handleOK /\ db' = binTime /\ qpc' = "select")
        /\ (qpc = "dispatch" /\ qpc' \notin {"dispatch", "start"}) =>
               \/ handleOK' /\ qpc' = "persist" /\ db' = db
               \/ ~handleOK' /\ qpc' = "select" /\ db' = db
        /\ (qpc = "persist" /\ qpc' \notin {"persist", "start"}) =>
               qpc' = "select"
      ]_vars

C10_Witness ==
    /\ qpc = "select"
    /\ nextId = 2
    /\ ~handleOK
    /\ curEvent.RequestId = 2
    /\ db = dbAtRecv
    /\ db = MarshalText(1)
    /\ lastTimestamp = 2

\* The two subscription tiers that qualify for polling.
QualifyingTiers == {"ENTERPRISE", "SECOPS"}

\* C11: at every iteration of the loop of Pull, and from its first one on, the
\* poll channel is one obtained from Client.Start exactly when the last known
\* subscription tier is Enterprise or SecOps, and is nil otherwise.
C11_PollingIffTierQualifies ==
    InLoop =>
        /\ papiChan \in {"open", "nil"}
        /\ (papiChan = "open" <=> currentSubscriptionType \in QualifyingTiers)
        /\ (papiChan = "open" => startedSince # -1)
        /\ (startedSince = -1 => currentSubscriptionType \notin QualifyingTiers)

\* The loop is idle on a tier that does not qualify, after it polled on one
\* that does.
C11_Witness ==
    /\ qpc = "select"
    /\ papiChan = "nil"
    /\ currentSubscriptionType = "COMMUNITY"
    /\ startedSince # -1

\* A step of the loop that takes a notification from tokenRefreshChan.
TierNotification == qpc = "select" /\ qpc' = "select" /\ refreshPending /\ ~refreshPending'

\* Such a step calls Client.Start (line 290).
StartOnNotification ==
    /\ TierNotification
    /\ currentSubscriptionType' # currentSubscriptionType
    /\ papiChan' = "open"

\* Such a step calls cancel() and Client.Stop (lines 294-295).
StopOnNotification ==
    /\ TierNotification
    /\ currentSubscriptionType' # currentSubscriptionType
    /\ papiChan' = "nil"

\* C12: on a tier-change notification the transport is started only when the
\* previously known tier did not grant polling, and never while a poll started
\* earlier has not been stopped; it is cancelled and stopped only when the
\* previously known tier granted polling; an unchanged tier does nothing.
C12_TransportFollowsTierEdges ==
    [][/\ StartOnNotification =>
            /\ currentSubscriptionType \notin QualifyingTiers
            /\ ~clientRunning
       /\ StopOnNotification => currentSubscriptionType \in QualifyingTiers
       /\ (TierNotification /\ subscription = currentSubscriptionType) =>
            UNCHANGED <<papiChan, clientRunning, ctxCancelled, startedSince,
                        currentSubscriptionType>>]_vars

\* A notification of a tier without polling rights, taken while polling.
Downgrade == TierNotification /\ papiChan = "open" /\ papiChan' = "nil"

\* A notification of a tier with polling rights, taken while idle.
Upgrade == TierNotification /\ papiChan = "nil" /\ papiChan' = "open"

\* C13: a downgrade stops the transport and leaves the loop running with a
\* poll context that is not cancelled, the in-memory time untouched and no
\* error returned; the poll context is cancelled in the loop only after a
\* Shutdown; a later upgrade starts the transport with the poll context as
\* the downgrade left it, from the in-memory time lastTimestamp.
C13_DowngradeCancelsOnlyThePoll ==
    [][/\ Downgrade =>
            /\ qpc' = "select"
            /\ oerr' = Nil
            /\ ~clientRunning'
            /\ ~ctxCancelled'
            /\ lastTimestamp' = lastTimestamp
       /\ Upgrade =>
            /\ qpc' = "select"
            /\ clientRunning'
            /\ ctxCancelled' = ctxCancelled
            /\ (~shutdownCalled => ~ctxCancelled')
            /\ startedSince' = lastTimestamp
       /\ (qpc' \in {"select", "dispatch", "persist"} /\ ctxCancelled')
            => shutdownCalled']_vars

\* Polling was started again after a downgrade, from an in-memory time that
\* was never stored: the store still holds the zero time it held at startup.
C13_Witness ==
    /\ qpc = "select"
    /\ papiChan = "open"
    /\ clientRunning
    /\ ~ctxCancelled
    /\ ~shutdownCalled
    /\ ~startWhileRunning
    /\ startedSince = 2
    /\ lastTimestampStr = MarshalText(0)
    /\ db = MarshalText(0)

\* C14: once in its loop Pull does not return: whatever the payload of an
\* event decodes to, whether its handler fails and whether the store takes the
\* new time, the next position is one of the loop (or the start, when the
\* process died) with no error returned; a failed dispatch and every write go
\* back to the select, where the next event or notification is taken.
C14_LoopSurvivesEventProblems ==
    [][InLoop =>
        /\ qpc' \in {"select", "dispatch", "persist", "start"}
        /\ oerr' = Nil
        /\ (qpc = "dispatch" /\ qpc' \notin {"dispatch", "start"}) =>
              qpc' = IF handleOK' THEN "persist" ELSE "select"
        /\ (qpc = "persist" /\ qpc' \notin {"persist", "start"}) =>
              qpc' = "select"]_vars

\* The second event is in dispatch after the dispatch of the first one
\* failed; nothing was stored, neither at startup nor for the first event.
C14_Witness ==
    /\ qpc = "dispatch"
    /\ curEvent.RequestId = 2
    /\ ~handleOK
    /\ lastTimestamp = 2
    /\ lastTimestampStr = ""
    /\ db = ""

\* The startup of Pull, from its entry to the loop or to its return.
Startup == qpc = "start" /\ qpc' # "start"

\* Whether polling was started by the startup, and from which time.
StartupPollsFrom(tm) ==
    /\ qpc' = "select"
    /\ oerr' = Nil
    /\ lastTimestamp' = tm
    /\ (currentSubscriptionType' \in QualifyingTiers =>
            clientRunning' /\ papiChan' = "open" /\ startedSince' = tm)

\* No transport was started and the loop was not entered.
StartupFails ==
    /\ qpc' = "failed"
    /\ oerr' # Nil
    /\ db' = db
    /\ papiChan' = "nil"
    /\ ~clientRunning'
    /\ startedSince' = -1

\* C15 (as claimed): at the startup of Pull, when nothing is read from the
\* store the store holds the zero time afterwards and polling starts from the
\* zero time; when what is read parses, polling starts from it and the store
\* is left as it was; when it does not parse, Pull returns an error, with no
\* transport started and the loop not entered.
C15_StartupPersistsZeroTime ==
    [][Startup =>
        /\ lastTimestampStr' = "" =>
              db' = MarshalText(0) /\ StartupPollsFrom(0)
        /\ (lastTimestampStr' # "" /\ UnmarshalText(lastTimestampStr') # -1) =>
              db' = db /\ StartupPollsFrom(UnmarshalText(lastTimestampStr'))
        /\ (lastTimestampStr' # "" /\ UnmarshalText(lastTimestampStr') = -1) =>
              StartupFails]_vars

\* C15 (amended): as above, but when nothing is read the zero time is handed
\* to the store, whose write may fail: the store then holds the zero time, or
\* what it held when the write failed, and polling starts from the zero time
\* in both cases.
C15_StartupWritesZeroTime ==
    [][Startup =>
        /\ lastTimestampStr' = "" =>
              db' \in {MarshalText(0), db} /\ StartupPollsFrom(0)
        /\ (lastTimestampStr' # "" /\ UnmarshalText(lastTimestampStr') # -1) =>
              db' = db /\ StartupPollsFrom(UnmarshalText(lastTimestampStr'))
        /\ (lastTimestampStr' # "" /\ UnmarshalText(lastTimestampStr') = -1) =>
              StartupFails]_vars

\* Nothing was stored: the startup stored the zero time and started polling
\* from it; no event came yet.
C15_Witness ==
    /\ qpc = "select"
    /\ dbAtRecv = ""
    /\ lastTimestampStr = ""
    /\ db = MarshalText(0)
    /\ clientRunning
    /\ startedSince = 0
    /\ nextId = 0

(***************************************************************************)
(* Claims about Papi.handleEvent, checked under SpecPullOnce.              *)
(***************************************************************************)

\* The payload decodes to a message with a header, a source and an operation
\* type among decision, alert and management.
WellFormed(data) ==
    /\ ~Unmarshal(data).err
    /\ Unmarshal(data).Header
    /\ Unmarshal(data).Source
    /\ Unmarshal(data).OperationType \in {"decision", "alert", "management"}

\* C16: every call of handleEvent calls a handler exactly when the payload is
\* well formed, and then the one handler of the payload's operation type,
\* with the caller's bulk flag; in every other case it calls no handler and
\* returns an error.
C16_HandlerOnlyForWellFormed ==
    \A i \in 1..Len(handled) :
        LET h == handled[i] IN
        IF WellFormed(h.Data)
        THEN /\ h.op = Unmarshal(h.Data).OperationType
             /\ h.op = h.Data
             /\ h.sync = sync
        ELSE /\ h.op = ""
             /\ h.err # Nil

\* A bulk pull handled a message whose header has no source, then an alert.
C16_Witness ==
    /\ sync
    /\ Len(handled) = 2
    /\ handled[1].Data = "nosource"
    /\ handled[1].err = "no source user"
    /\ handled[2].op = "alert"
    /\ handled[2].err = Nil

(***************************************************************************)
(* Claims about Papi.SendDeletedDecisions, checked under SpecSend.         *)
(***************************************************************************)

\* The identifiers carried by the outbound calls 1..k, concatenated.
RECURSIVE Carried(_)
Carried(k) == IF k = 0 THEN <<>> ELSE Carried(k - 1) \o outbound[k].decisions

\* C17: the k-th outbound call of SendDeletedDecisions carries the k-th chunk
\* of 50 identifiers of its batch, the last chunk holding what is left; a
\* failed call is the last one; a call that returns without a failure has
\* sent, concatenated, exactly the batch, in calls of 50, 50 and 25
\* identifiers for a batch of 125.
C17_ChunksOfFifty ==
    LET batch == flights[1].cache
        n == Len(outbound)
    IN
    /\ \A k \in 1..n :
        /\ outbound[k].decisions =
              SubSeq(batch, 50 * (k - 1) + 1,
                     IF 50 * k < Len(batch) THEN 50 * k ELSE Len(batch))
        /\ Len(outbound[k].decisions) \in 1..50
        /\ k < n => outbound[k].ok
    /\ flights[1].state = "failed" => (n > 0 /\ ~outbound[n].ok)
    /\ flights[1].state = "done" =>
        /\ \A k \in 1..n : outbound[k].ok
        /\ Carried(n) = batch
        /\ \A k \in 1..(n - 1) : Len(outbound[k].decisions) = 50
        /\ Len(batch) = 125 =>
              /\ n = 3
              /\ Len(outbound[1].decisions) = 50
              /\ Len(outbound[2].decisions) = 50
              /\ Len(outbound[3].decisions) = 25

\* A batch of 125 identifiers was sent in three calls.
C17_Witness ==
    /\ Len(flights[1].cache) = 125
    /\ flights[1].state = "done"
    /\ Len(outbound) = 3

(***************************************************************************)
(* Claims about Papi.SyncDecisions, checked under SpecSync and, for what   *)
(* must happen in the end, under SpecSyncLive.                             *)
(***************************************************************************)

\* At least one of the two sharing policies is set and true.
PolicyOn == ShareManualDecisions = "true" \/ ConsoleManagement = "true"

\* The snapshots handed to the transmissions 1..k, concatenated.
RECURSIVE Flushed(_)
Flushed(k) == IF k = 0 THEN <<>> ELSE Flushed(k - 1) \o flights[k].cache

\* C18: while both sharing policies are unset or false the pending cache is
\* empty whatever arrived or ticked, no transmission is started and no
\* outbound call is made; with a policy on, what was flushed so far followed
\* by the pending cache is the sequence of all identifiers that arrived, in
\* their order of arrival.
C18_PoliciesGateTheCache ==
    /\ ~PolicyOn => (cache = <<>> /\ flights = <<>> /\ outbound = <<>>)
    /\ (PolicyOn /\ spc = "loop") =>
          Flushed(Len(flights)) \o cache = Identifiers(1, nextDecision)

\* Two deleted decisions arrived with one policy false and the other unset,
\* and the loop was then told to stop.
C18_Witness ==
    /\ ShareManualDecisions = "false"
    /\ ConsoleManagement = "nil"
    /\ nextDecision = 2
    /\ spc = "returned"

\* A step of the loop of SyncDecisions that starts a transmission and stays
\* in the loop: a tick.
TickFlush == spc = "loop" /\ spc' = "loop" /\ Len(flights') = Len(flights) + 1

\* C19: a tick that starts a transmission found the cache non-empty, hands the
\* transmission the cache as it was, leaves an empty cache and makes no
\* outbound call itself: the loop stays at its select with the transmission
\* running; no transmission is ever started on an empty snapshot, and a step
\* of the loop that leaves a non-empty cache in place starts none.
C19_TickFlushesInBackground ==
    [][/\ TickFlush =>
            /\ cache # <<>>
            /\ cache' = <<>>
            /\ flights' = Append(flights,
                                 [cache |-> cache, start |-> 0, state |-> "running"])
            /\ outbound' = outbound
       /\ \A f \in 1..Len(flights') : flights'[f].cache # <<>>
       /\ (spc' = "loop" /\ cache # <<>> /\ cache' # <<>>) =>
            Len(flights') = Len(flights)]_vars

\* Two transmissions started by two ticks are both still running, and the
\* loop has taken a further arrival.
C19_Witness ==
    /\ spc = "loop"
    /\ Len(flights) = 2
    /\ flights[1].state = "running"
    /\ flights[2].state = "running"
    /\ outbound = <<>>
    /\ cache # <<>>

\* C20: SyncDecisions returns only on the shutdown signal, and then starts one
\* transmission of the whole cache when it is non-empty and none when it is
\* empty, making no outbound call itself; once the signal is given the loop
\* returns in the end.
C20_ShutdownFlushesAndReturns ==
    /\ [][(spc = "loop" /\ spc' = "returned") =>
            /\ dying
            /\ cache' = cache
            /\ outbound' = outbound
            /\ flights' = IF cache = <<>>
                          THEN flights
                          ELSE Append(flights,
                                      [cache |-> cache, start |-> 0,
                                       state |-> "running"])]_vars
    /\ [][spc = "returned" => spc' = "returned" /\ cache' = cache
                              /\ Len(flights') = Len(flights)]_vars
    /\ ((dying /\ spc = "loop") ~> spc = "returned")

\* The loop has returned after starting the transmission of a cache of two
\* identifiers that no tick had flushed.
C20_Witness ==
    /\ spc = "returned"
    /\ Len(cache) = 2
    /\ Len(flights) = 1
    /\ flights[1].cache = cache

\* The identifiers carried by all outbound calls so far, concatenated.
AllCarried == Carried(Len(outbound))

\* The number of positions of s that hold x.
Occurrences(s, x) == Cardinality({i \in 1..Len(s) : s[i] = x})

\* C21: the snapshots of the flushes, in the order of the flushes, followed by
\* what is still pending, are the accepted identifiers in their order of
\* arrival, each once: two snapshots share no identifier and none is both
\* flushed and pending; after the return every accepted identifier is in
\* exactly one snapshot.  No identifier is carried by two outbound calls, and
\* one carried by a failed call is neither pending nor in another snapshot.
C21_FlushesAreDisjoint ==
    LET accepted == IF PolicyOn THEN Identifiers(1, nextDecision) ELSE <<>>
        flushed == Flushed(Len(flights))
    IN
    /\ spc = "loop" => flushed \o cache = accepted
    /\ spc = "returned" => flushed = accepted
    /\ \A x \in 1..nextDecision :
        /\ Occurrences(flushed, x) <= 1
        /\ Occurrences(AllCarried, x) <= 1
    /\ \A k \in 1..Len(outbound) :
        /\ outbound[k].flight \in 1..Len(flights)
        /\ \A i \in 1..Len(outbound[k].decisions) :
            /\ Occurrences(flights[outbound[k].flight].cache,
                           outbound[k].decisions[i]) = 1
            /\ spc = "loop" => Occurrences(cache, outbound[k].decisions[i]) = 0

\* Two flushes were made, the transmission of the first one failed, and a
\* further identifier is pending.
C21_Witness ==
    /\ spc = "loop"
    /\ Len(flights) = 2
    /\ flights[1].state = "failed"
    /\ flights[2].state = "running"
    /\ Len(cache) = 1

(***************************************************************************)
(* Claims about Papi.Shutdown, checked under SpecPull.                     *)
(***************************************************************************)

\* C22: Shutdown can always run to its end, wherever Pull is: waiting in its
\* select, busy with an event, not yet started or returned.  Its signal
\* reaches the loop only when the loop was waiting in its select; called
\* anywhere else the signal is dropped and nothing cancels the poll context.
C22_ShutdownNeverBlocks ==
    /\ ~shutdownCalled => (ENABLED Shutdown /\ shutdownAt = "" /\ ~stopSignal)
    /\ shutdownCalled =>
          shutdownAt \in {"start", "failed", "select", "dispatch", "persist"}
    /\ stopSignal => (shutdownAt = "select" /\ qpc = "select")
    /\ (shutdownCalled /\ shutdownAt # "select") => (~stopSignal /\ ~ctxCancelled)

\* Shutdown was called while an event was being handled; it returned, and the
\* loop has gone back to its select with no signal to take.
C22_Witness ==
    /\ shutdownCalled
    /\ shutdownAt = "dispatch"
    /\ qpc = "select"
    /\ ~stopSignal
    /\ ~clientRunning

\* C23: once Shutdown was called while the loop of Pull was running, the
\* poll context is cancelled in the end.
C23_ShutdownCancelsPoll ==
    (shutdownCalled /\ shutdownAt \in {"select", "dispatch", "persist"})
        ~> ctxCancelled

(***************************************************************************)
(* Claims about Node.ProcessStatics, checked under SpecStatics.            *)
(***************************************************************************)

\* The step is an iteration of the loop of ProcessStatics whose directive
\* got its value (no evaluation failure, no unexpected type).
Resolved ==
    /\ stidx' = stidx + 1
    /\ static'.Value # "" \/ static'.RunTimeValue.kind \notin {"error", "bool"}

\* C24: a directive whose resolved value is empty and whose method is not
\* "ParseDate" leaves the event as it was, runs no enrichment function and
\* lets the loop go to the next directive; a directive whose method is
\* "ParseDate" has its enrichment function run also when its resolved value
\* is empty.
C24_EmptyValueSkipsUnlessParseDate ==
    [][(Resolved /\ value' = "") =>
          IF static'.Method # "ParseDate"
          THEN evt' = evt /\ ~called' /\ stpc' = "loop" /\ sterr' = Nil
          ELSE called' /\ outcome' = "method"]_vars

\* A directive with an empty value was skipped, and the ParseDate directive
\* after it ran its enrichment function on an empty value.
C24_Witness ==
    /\ stidx = 2
    /\ prevOutcome = "empty"
    /\ static.Method = "ParseDate"
    /\ value = ""
    /\ outcome = "method"
    /\ called

\* The step is an iteration of the loop of ProcessStatics on a directive
\* whose value comes from an expression with an outcome of one of kinds.
Evaluates(kinds) ==
    /\ stidx' = stidx + 1
    /\ static'.Value = ""
    /\ static'.RunTimeValue.kind \in kinds

\* C25: a directive whose expression returns a mapping, a sequence or nil,
\* or fails to evaluate, changes nothing (the event stays as it was and no
\* enrichment function runs), is no error, and the loop goes on with the
\* directives after it.
C25_UnconvertibleResultSkips ==
    [][Evaluates({"map", "array", "nil", "error"}) =>
          /\ evt' = evt
          /\ ~called'
          /\ sterr' = Nil
          /\ stpc' = "loop"]_vars

\* C26: a directive whose expression returns a value of a type other than
\* string, integer, float, mapping, sequence or nil makes ProcessStatics
\* return an error in that very iteration, with the event as the earlier
\* directives left it; once ProcessStatics has returned, no directive is
\* taken from the list and the event does not change any more.
C26_UnexpectedTypeReturnsAtOnce ==
    [][/\ Evaluates({"bool"}) =>
            /\ stpc' = "returned"
            /\ sterr' # Nil
            /\ evt' = evt
            /\ ~called'
       /\ stpc = "returned" => (evt' = evt /\ stidx' = stidx /\ stpc' = stpc)]_vars

\* The first directive has written Parsed["k"], the second one made
\* ProcessStatics return the error, and the event still holds what the
\* first wrote.
C26_Witness ==
    /\ stpc = "returned"
    /\ sterr # Nil
    /\ outcome = "badtype"
    /\ prevOutcome = "parsed"
    /\ evt.Parsed["k"] # Absent
    /\ stidx = 2

\* The step is an iteration of the loop of ProcessStatics on a directive
\* with none of the five kinds of target populated.
TakesUntargeted ==
    /\ stidx' = stidx + 1
    /\ static'.Method = ""
    /\ static'.Parsed = ""
    /\ static'.Meta = ""
    /\ static'.Enriched = ""
    /\ static'.TargetByName = <<>>

\* C27, as stated: whenever the loop of ProcessStatics takes a directive
\* with none of the five kinds of target populated, the fatal error is
\* raised.
C27_UntargetedIsAlwaysFatal ==
    [][TakesUntargeted => stpc' = "fatal"]_vars

\* C27, amended: a directive with none of the five kinds of target
\* populated raises the fatal error when its resolved value is not empty,
\* and only such a directive raises it; when its value is empty or its
\* expression fails it is skipped without a trace in the event and without
\* an error, and when its expression returns an unexpected type
\* ProcessStatics returns the error of that case.  After the fatal error
\* nothing more happens.
C27_UntargetedIsFatalWithAValue ==
    [][/\ (TakesUntargeted /\ Resolved /\ value' # "") => (stpc' = "fatal" /\ evt' = evt)
       /\ (TakesUntargeted /\ (value' = "" \/ ~Resolved)) =>
             /\ evt' = evt
             /\ stpc' = IF static'.Value = "" /\ static'.RunTimeValue.kind = "bool"
                        THEN "returned" ELSE "loop"
       /\ (stpc' = "fatal" /\ stpc # "fatal") => (TakesUntargeted /\ value' # "")
       /\ stpc = "fatal" => UNCHANGED staticsVars]_vars

\* The first directive was applied; the second has no target and a value,
\* and ended the process.
C27_Witness ==
    /\ stpc = "fatal"
    /\ outcome = "fatal"
    /\ value # ""
    /\ static.Method = "" /\ static.Parsed = "" /\ static.Meta = ""
    /\ static.Enriched = "" /\ static.TargetByName = <<>>
    /\ prevOutcome = "meta"
    /\ stidx = 2

\* Dotted paths that lead nowhere in types.Event: an unknown field, a final
\* location that is not a string, a segment below a string, and a final
\* location that cannot be set (a nil pointer).
Unresolvable ==
    {<<"Nope">>, <<"Process">>, <<"Stage", "x">>, <<"Overflow", "Alert">>}

\* The step is an iteration of the loop of ProcessStatics on a directive
\* whose target is the dotted path path.
TakesPath(path) ==
    /\ stidx' = stidx + 1
    /\ static'.Method = ""
    /\ static'.Parsed = ""
    /\ static'.Meta = ""
    /\ static'.Enriched = ""
    /\ static'.TargetByName = path

\* C28: a directive whose method is not registered, or whose dotted path
\* cannot be resolved, leaves the event as it was, makes ProcessStatics
\* return no error and lets the loop go on; SetTargetByName has returned
\* false for the path; and the directive after it is applied as any other.
C28_UnknownMethodOrPathIsSkipped ==
    [][/\ (Resolved /\ static'.Method \notin Registered \cup {""}) =>
             /\ evt' = evt
             /\ ~called'
             /\ sterr' = Nil
             /\ stpc' = "loop"
       /\ \A path \in Unresolvable :
             (Resolved /\ TakesPath(path)) =>
                 /\ evt' = evt
                 /\ sterr' = Nil
                 /\ stpc' = "loop"
                 /\ value' # "" => outcome' = "notarget"
       /\ (stidx' = stidx + 1 /\ outcome \in {"nomethod", "notarget"}) =>
             /\ outcome' = "parsed" => evt'.Parsed[static'.Parsed] = value'
             /\ outcome' = "meta" => evt'.Meta[static'.Meta] = value'
             /\ outcome' = "enriched" => evt'.Enriched[static'.Enriched] = value'
             /\ outcome' = "method" => called']_vars

\* A directive of an unregistered method, then a directive of an
\* unresolvable path, both with a value: the event is the one ProcessStatics
\* was given and the loop is still going.
C28_Witness ==
    /\ stidx = 2
    /\ prevOutcome = "nomethod"
    /\ outcome = "notarget"
    /\ value # ""
    /\ evt = MakeEvent
    /\ stpc = "loop"
    /\ sterr = Nil

(***************************************************************************)
(* Claims about Node.CheckIPsWL, checked under SpecIPsWL.                  *)
(***************************************************************************)

\* The source addresses of the event: the parsed source_ip for a log event,
\* each key of the overflow sources that parses for an overflow event.
SourceAddresses(p) ==
    LET texts == IF p.Type = LOG THEN {p.Meta} \ {Absent}
                 ELSE IF p.Type = OVFLW THEN p.Sources
                 ELSE {}
    IN  {ParseAddr(t).addr : t \in {u \in texts : ParseAddr(u).ok}}

\* The address a lies in the prefix c: its leading octets are those of the
\* prefix (the prefixes of the model end at an octet).
LiesIn(a, c) == \A i \in 1..(c.bits \div 8) : a[i] = c.addr[i]

\* C29: CheckIPsWL returns true exactly when a source address of the event
\* equals a configured IP or lies in a configured CIDR; with the CIDR
\* 10.0.0.0/8 and the source_ip 10.1.2.3 it returns true.
C29_TrueIffASourceIsListed ==
    ippc = "returned" =>
        /\ ipResult <=>
              \E a \in SourceAddresses(wlEvent) :
                  \/ \E i \in DOMAIN Whitelist.B_Ips : Whitelist.B_Ips[i] = a
                  \/ \E i \in DOMAIN Whitelist.B_Cidrs : LiesIn(a, Whitelist.B_Cidrs[i])
        /\ ( /\ wlEvent.Type = LOG
             /\ wlEvent.Meta = "10.1.2.3"
             /\ \E i \in DOMAIN Whitelist.B_Cidrs :
                   Whitelist.B_Cidrs[i] = [addr |-> <<10, 0, 0, 0>>, bits |-> 8] )
           => ipResult

\* The example of the claim: only the CIDR 10.0.0.0/8 is configured, the
\* event is a log line from 10.1.2.3, and CheckIPsWL returned true.
C29_Witness ==
    /\ ippc = "returned"
    /\ Whitelist.B_Ips = <<>>
    /\ Whitelist.B_Cidrs = <<[addr |-> <<10, 0, 0, 0>>, bits |-> 8]>>
    /\ wlEvent.Type = LOG
    /\ wlEvent.Meta = "10.1.2.3"
    /\ ipResult

(***************************************************************************)
(* Claims about Node.CheckExprWL, checked under SpecExprWL.                *)
(***************************************************************************)

\* The expressions were run in the configured order, none was run after one
\* that gave true, and one that gave a value that is not a boolean was
\* followed by the run of the next one.
RunInOrder ==
    /\ \A i \in DOMAIN evaluated : evaluated[i] = i
    /\ \A i \in DOMAIN evaluated :
          i < Len(evaluated) => Whitelist.B_Exprs[i] # "true"
    /\ epc = "returned" =>
          \A i \in DOMAIN evaluated :
              (Whitelist.B_Exprs[i] = "string" /\ i < Len(Whitelist.B_Exprs))
                  => i + 1 \in DOMAIN evaluated

\* An expression that was run gave what is in outs.
SomeGave(outs) == \E i \in DOMAIN evaluated : Whitelist.B_Exprs[i] \in outs

\* C30, as stated: the expressions are run in the configured order up to
\* the first that gives true, and CheckExprWL then returns (true, nil); a
\* value that is not a boolean does not match and does not stop the runs;
\* when no expression gives true CheckExprWL returns (false, nil).
C30_FalseNilWithoutATrue ==
    /\ RunInOrder
    /\ epc = "returned" =>
          IF SomeGave({"true"})
          THEN exprResult = [ok |-> TRUE, err |-> Nil]
          ELSE exprResult = [ok |-> FALSE, err |-> Nil]

\* C30, amended: as above, but (false, nil) is what CheckExprWL returns
\* when no expression gives true and no run fails; when a run fails, the
\* value returned is false with the error of that run.
C30_FalseNilWithoutATrueOrAFailure ==
    /\ RunInOrder
    /\ epc = "returned" =>
          IF SomeGave({"true"})
          THEN exprResult = [ok |-> TRUE, err |-> Nil]
          ELSE IF SomeGave({"error"})
          THEN exprResult.ok = FALSE /\ exprResult.err # Nil
          ELSE /\ exprResult = [ok |-> FALSE, err |-> Nil]
               /\ Len(evaluated) = Len(Whitelist.B_Exprs)

\* A value that is not a boolean, then false, then true: the three were run
\* and CheckExprWL returned (true, nil).
C30_Witness ==
    /\ epc = "returned"
    /\ Whitelist.B_Exprs = <<"string", "false", "true">>
    /\ evaluated = <<1, 2, 3>>
    /\ exprResult = [ok |-> TRUE, err |-> Nil]

\* C31: when the run of a whitelist expression fails, no later expression
\* is run, and CheckExprWL returns the error of that run together with the
\* whitelist result as the expressions before it left it; it returns an
\* error in no other case.
C31_FailureEndsTheCheck ==
    /\ \A i \in DOMAIN evaluated :
          i < Len(evaluated) => Whitelist.B_Exprs[i] # "error"
    /\ SomeGave({"error"}) =>
          /\ epc = "returned"
          /\ Whitelist.B_Exprs[Len(evaluated)] = "error"
          /\ exprResult.err # Nil
          /\ exprResult.ok =
                (\E i \in 1..(Len(evaluated) - 1) : Whitelist.B_Exprs[i] = "true")
    /\ (epc = "returned" /\ exprResult.err # Nil) => SomeGave({"error"})

\* The first expression gave false and the run of the second failed: the
\* third, which would give true, was not run, and CheckExprWL returned
\* false with the error.
C31_Witness ==
    /\ epc = "returned"
    /\ Whitelist.B_Exprs = <<"false", "error", "true">>
    /\ evaluated = <<1, 2>>
    /\ exprResult.ok = FALSE
    /\ exprResult.err # Nil

(***************************************************************************)
(* More claims about parser.Parse, checked under SpecParse.                *)
(***************************************************************************)

\* The invocation c ends the node loop of its stage: the node matched with
\* OnSuccess "next_stage", or it left the event in another stage.
EndsItsStage(c) ==
    \/ c.ret /\ nodes[c.node].OnSuccess = "next_stage"
    \/ c.after # c.stage

\* C34: in the iteration of a stage, no node is invoked after a node that
\* matched with OnSuccess "next_stage" or that left the event in another
\* stage, whether that node matched or not and whatever its OnSuccess.
C34_NoNodeAfterTheStageIsLeft ==
    \A i, j \in DOMAIN calls :
        (i < j /\ calls[i].stage = calls[j].stage) => ~EndsItsStage(calls[i])

\* A node that did not match and whose OnSuccess is not "next_stage" moved
\* the event to another stage; a later node of its stage is configured, and
\* Parse has returned with that one invocation only.
C34_Witness ==
    /\ ppc = "done"
    /\ Len(calls) = 1
    /\ ~calls[1].ret
    /\ calls[1].err = Nil
    /\ nodes[calls[1].node].OnSuccess = ""
    /\ calls[1].after # calls[1].stage
    /\ \E k \in DOMAIN nodes : k > calls[1].node /\ nodes[k].Stage = calls[1].stage

\* C37: in one call of Parse a node is invoked at most once; the
\* invocations follow the configured order of the stages and, within a
\* stage, the order of the node list; and a node is invoked only when the
\* stage of the event is the stage of the node.
C37_NodesOnceAndInOrder ==
    /\ \A i, j \in DOMAIN calls : i # j => calls[i].node # calls[j].node
    /\ \A i, j \in DOMAIN calls :
          i < j =>
              \/ stageidx(calls[i].stage, Stages) < stageidx(calls[j].stage, Stages)
              \/ /\ calls[i].stage = calls[j].stage
                 /\ calls[i].node < calls[j].node
    /\ \A i \in DOMAIN calls :
          /\ calls[i].before = nodes[calls[i].node].Stage
          /\ calls[i].before = calls[i].stage

\* Two stages were passed: the node of the second stage, which comes first
\* in the list, was invoked after the node of the first stage.
C37_Witness ==
    /\ ppc = "done"
    /\ exit = "ok"
    /\ Len(calls) = 2
    /\ calls[1].node = 2
    /\ calls[2].node = 1
    /\ calls[1].stage = "s00"
    /\ calls[2].stage = "s01"

\* C38: with an empty list of stages Parse invokes no node and returns the
\* event with the stage it came with, Process true and no error.
C38_NoStageMeansProcessed ==
    Stages = <<>> =>
        /\ calls = <<>>
        /\ ppc = "done" =>
              /\ event.Stage = xp.Stage
              /\ event.Process
              /\ perr = Nil
              /\ exit = "ok"

\* No stage is configured, nodes are, and the event came with a stage and
\* Process false: Parse has returned.
C38_Witness ==
    /\ Stages = <<>>
    /\ nodes # <<>>
    /\ xp.Stage = "s00"
    /\ ~xp.Process
    /\ ppc = "done"
    /\ event.Process

(***************************************************************************)
(* Claims about the targets of Node.ProcessStatics and SetTargetByName,    *)
(* checked under SpecStatics.                                              *)
(***************************************************************************)

\* The iteration that is taken reaches the choice of the target (line 575).
ReachesTheTargets ==
    /\ stidx' = stidx + 1
    /\ outcome' \notin {"exprfail", "badtype", "empty"}

\* C35: an iteration that reaches the choice of the target takes the first
\* populated one of Method, Parsed, Meta, Enriched and TargetByName, in
\* this order, and writes nothing for the other populated ones.
C35_FirstTargetOnly ==
    [][ReachesTheTargets =>
          LET d == static' IN
          IF d.Method # ""
          THEN /\ outcome' \in {"method", "nomethod"}
               /\ evt'.Parsed = evt.Parsed
               /\ evt'.Meta = evt.Meta
               /\ evt'.Stage = evt.Stage
               /\ evt'.Overflow = evt.Overflow
               /\ d.Enriched # "" => evt'.Enriched[d.Enriched] = evt.Enriched[d.Enriched]
          ELSE IF d.Parsed # ""
          THEN /\ outcome' = "parsed"
               /\ evt' = [evt EXCEPT !.Parsed[d.Parsed] = value']
          ELSE IF d.Meta # ""
          THEN /\ outcome' = "meta"
               /\ evt' = [evt EXCEPT !.Meta[d.Meta] = value']
          ELSE IF d.Enriched # ""
          THEN /\ outcome' = "enriched"
               /\ evt' = [evt EXCEPT !.Enriched[d.Enriched] = value']
          ELSE IF d.TargetByName # <<>>
          THEN /\ outcome' \in {"target", "notarget"}
               /\ evt'.Parsed = evt.Parsed
               /\ evt'.Enriched = evt.Enriched
          ELSE outcome' = "fatal"]_vars

\* A directive with Parsed, Meta, Enriched and TargetByName populated was
\* applied: only .Parsed[k] holds its value.
C35_Witness ==
    /\ static.Method = ""
    /\ static.Parsed = "k"
    /\ static.Meta = "k"
    /\ static.Enriched = "k"
    /\ static.TargetByName = <<"evt", "Stage">>
    /\ outcome = "parsed"
    /\ evt.Parsed["k"] = "v"
    /\ evt.Meta["k"] = Absent
    /\ evt.Enriched["k"] = Absent
    /\ evt.Stage = "s00"

\* The iteration that is taken calls SetTargetByName (line 611).
CallsSetTargetByName ==
    /\ stidx' = stidx + 1
    /\ outcome' \in {"target", "notarget"}

\* The path of the directive without one leading "evt".
Stripped(path) == IF Len(path) > 1 /\ path[1] = "evt" THEN SubSeq(path, 2, Len(path)) ELSE path

\* The walk along segs comes to a map of the event with a segment left:
\* Parsed, Meta and Enriched, maps of strings, and Overflow.Sources, a map
\* of models.Source.
ComesToAStringMap(segs) == Len(segs) >= 2 /\ segs[1] \in {"Parsed", "Meta", "Enriched"}
ComesToAMap(segs) ==
    \/ ComesToAStringMap(segs)
    \/ Len(segs) >= 3 /\ segs[1] = "Overflow" /\ segs[2] = "Sources"

\* The event e with the key k of its map m set to v.
WithKey(e, m, k, v) ==
    CASE m = "Parsed" -> [e EXCEPT !.Parsed[k] = v]
      [] m = "Meta" -> [e EXCEPT !.Meta[k] = v]
      [] m = "Enriched" -> [e EXCEPT !.Enriched[k] = v]
      [] OTHER -> e

StartupReadFails == Startup /\ db # "" /\ lastTimestampStr' = ""

\* C39 as stated: when the read of the stored time fails at the startup,
\* Pull returns no error, the store holds the zero time afterwards whatever
\* it held, and polling starts from the zero time.
C39_FailedReadOverwrites ==
    [][StartupReadFails =>
          /\ qpc' # "failed"
          /\ db' = MarshalText(0)
          /\ StartupPollsFrom(0)]_vars

\* C39, amended: the same, but the zero time is handed to the store, whose
\* write may fail too: the store then holds the zero time, or keeps what it
\* held when the write failed.
C39_FailedReadStartsFromZero ==
    [][StartupReadFails =>
          /\ qpc' # "failed"
          /\ db' \in {MarshalText(0), db}
          /\ StartupPollsFrom(0)]_vars

\* The store held a time that parses; its read failed, the zero time was
\* stored over it and polling was started from the zero time; no event came
\* yet.
C39_Witness ==
    /\ qpc = "select"
    /\ nextId = 0
    /\ dbAtRecv = MarshalText(1)
    /\ lastTimestampStr = ""
    /\ db = MarshalText(0)
    /\ oerr = Nil
    /\ clientRunning
    /\ startedSince = 0

(***************************************************************************)
(* The liveness of the cache of SyncDecisions, checked under SpecSyncFair. *)
(***************************************************************************)

\* The identifier id is in the pending cache of the running loop.
Pending(id) == spc = "loop" /\ \E i \in DOMAIN cache : cache[i] = id

\* The identifier id was handed to a call of SendDeletedDecisions.
HandedOver(id) ==
    \E f \in DOMAIN flights : \E i \in DOMAIN flights[f].cache : flights[f].cache[i] = id

\* C40: with a ticker that keeps ticking, every identifier that enters the
\* pending cache is handed to SendDeletedDecisions in the end, by the flush
\* of a tick or by that of the shutdown.
C40_PendingIsHandedOver ==
    \A id \in 1..MaxDeleted : Pending(id) ~> HandedOver(id)

\* One identifier was flushed by a tick and another by the shutdown.
C40_Witness ==
    /\ spc = "returned"
    /\ Len(flights) = 2
    /\ flights[1].cache = <<1>>
    /\ flights[2].cache = <<2>>
    /\ cache = <<2>>

(***************************************************************************)
(* Claims about the trace of the parsers, checked under SpecParseDump.     *)
(***************************************************************************)

\* A step of Parse as it is taken with the trace off, on the variables of
\* the call alone.
UntracedStep ==
    \/ ParseEntryStep
    \/ ParseStageStep
    \/ ParseNodeStep
    \/ ParseNodesDoneStep
    \/ ParseStageEndStep
    \/ ParseReturnStep

\* C32: with the trace on, every step of a call of Parse leaves the event,
\* the error, the invocations of the nodes and the position of the call as
\* a step of Parse with the trace off does, or does not touch them.
C32_TraceChangesNothing ==
    [][UntracedStep \/ UNCHANGED parseVars]_vars

\* The steps on which the call does not panic are such steps.
TraceChangesNothingButPanics ==
    [][ppc' # "panic" => (UntracedStep \/ UNCHANGED parseVars)]_vars

RECURSIVE TotalLen(_, _)
\* The number of records of the slices of the keys ks.
TotalLen(recs, ks) ==
    IF ks = {} THEN 0
    ELSE LET k == CHOOSE x \in ks : TRUE
         IN  Len(recs[k]) + TotalLen(recs, ks \ {k})

\* The number of records the trace holds.
RecordsHeld == TotalLen(StageParseCache.recs, DOMAIN StageParseCache.recs)

\* No assignment to an entry of the trace was made on a nil map.
NoWriteHitsANilMap == ppc # "panic" /\ opc # "panic"

\* The trace holds every record that was appended to it.
NoRecordIsLost == RecordsHeld = appended

\* Both calls have returned and the trace holds one record for each
\* invocation of a node.
OneRecordForEachInvocation ==
    (ppc = "done" /\ opc = "done") => RecordsHeld = Len(calls) + oinvoked

\* The same, counting the invocations that returned no error.
OneRecordForEachInvocationWithoutError ==
    (ppc = "done" /\ opc = "done") =>
        RecordsHeld = Cardinality({i \in DOMAIN calls : calls[i].err = Nil}) + oinvoked

\* C33: with two calls of Parse at the same time and the trace on, no write
\* hits a nil map, no record appended to the trace is lost, and when both
\* calls have returned the trace holds one record for each invocation of a
\* node.
C33_TraceIsComplete ==
    /\ NoWriteHitsANilMap
    /\ NoRecordIsLost
    /\ OneRecordForEachInvocation

\* Both calls have returned, each with its records in the trace.
DumpBothReturned ==
    /\ ppc = "done"
    /\ opc = "done"
    /\ exit = "ok"
    /\ RecordsHeld = Len(calls) + oinvoked
    /\ Len(calls) = Len(Stages)

====
